---- MODULE Spec2Model ----
(***************************************************************************)
(* Model of the transaction consumer: the Kafka ingestion loop             *)
(* (Consumer.Consume), the message handler (TransactionHandler), the       *)
(* idempotent writer (transactionUseCase.ProcessTransaction) and the       *)
(* postgres repository behind it.                                          *)
(*                                                                         *)
(* The amount, a float64 that the handler divides, is held with the fields *)
(* of its IEEE-754 value (section float64 below).  The balances, float64   *)
(* values that are only copied and compared, are held in hundredths: the   *)
(* integer n stands for n/100.                                             *)
(* Optional fields (Go pointers) are <<>> when nil and <<v>> when set.     *)
(***************************************************************************)
EXTENDS Integers, Sequences, FiniteSets, TLC

VARIABLES
    rows,        \* table historical_transactions, in insertion order
    dbUp,        \* whether the database answers
    logs,        \* diagnostics emitted so far, oldest first
    uc,          \* per goroutine: the frame of its ProcessTransaction call
    hist,        \* completed ProcessTransaction calls, oldest first
    faults,      \* environment faults injected so far
    kafka,       \* the partition: the messages the reader will deliver
    pos,         \* number of messages the reader has delivered
    cursor,      \* committed offset: messages acknowledged
    cpc,         \* where Consume is
    cur,         \* offset of the message Consume holds (0: none)
    ctxDone,     \* the context passed to Consume is cancelled
    ret,         \* what Consume returned
    herr         \* what the handler returned for the current message

vars == <<rows, dbUp, logs, uc, hist, faults, kafka, pos, cursor, cpc, cur, ctxDone, ret, herr>>
loopVars == <<kafka, pos, cursor, cpc, cur, ctxDone, ret, herr>>

\* ------------------------------------------------------------- bounds
MaxCalls == 2
MaxLog == 2
MaxFaults == 1
MaxRetries == 2

\* ------------------------------------------------------------- float64
\* A float64 is (-1)^neg * (a * 2^40 + b * 2^20 + c) * 2^exp: the 53-bit
\* significand in three limbs, a below 2^13, b and c below 2^20.  A normal
\* value has a >= 2^12; a subnormal value or a zero has exp = MinExp.
Limb == 2^20
MinExp == -1074
F64(neg, a, b, c, e) == [neg |-> neg, a |-> a, b |-> b, c |-> c, exp |-> e]

RECURSIVE BitLen(_)
BitLen(n) == IF n = 0 THEN 0 ELSE 1 + BitLen(n \div 2)

\* float64(n) for an integer n of magnitude below 2^20
FromInt(n) ==
    LET k == IF n < 0 THEN -n ELSE n
        shift == 53 - BitLen(k)
    IN IF k = 0 THEN F64(FALSE, 0, 0, 0, MinExp)
       ELSE IF shift >= 40 THEN F64(n < 0, k * 2^(shift - 40), 0, 0, -shift)
       ELSE F64(n < 0, k \div 2^(40 - shift), (k % 2^(40 - shift)) * 2^(shift - 20), 0, -shift)

IsZero(x) == x.a = 0 /\ x.b = 0 /\ x.c = 0
\* x > 0
Positive(x) == ~x.neg /\ ~IsZero(x)
\* x >= 0
NonNegative(x) == ~x.neg \/ IsZero(x)

\* the one member of a set of one
The(S) == CHOOSE v \in S : TRUE

\* the significand of x times 2^7, in three limbs
Times128(x) ==
    LET c7 == x.c * 128
        b7 == x.b * 128 + c7 \div Limb
    IN <<x.a * 128 + b7 \div Limb, b7 % Limb, c7 % Limb>>

\* the quotient, in three limbs, and the remainder of n by 100
QuoRem100(n) ==
    LET t2 == (n[1] % 100) * Limb + n[2]
        t3 == (t2 % 100) * Limb + n[3]
    IN <<n[1] \div 100, t2 \div 100, t3 \div 100, t3 % 100>>

\* the exponent of the float64 nearest to a quotient q held at exponent e
ResultExp(q, e) ==
    LET e0 == e + (IF q[1] >= 2^13 THEN 1 ELSE 0)
    IN IF e0 < MinExp THEN MinExp ELSE e0

\* q, held at exponent E less the binary logarithm of p, rounded at
\* exponent E: the bits below are dropped and the value is rounded on them
\* and on the remainder, to nearest, ties to even
RoundAt(neg, q, p, E) ==
    LET sc == (q[2] % p) * (Limb \div p) + q[3] \div p
        sb == (q[1] % p) * (Limb \div p) + q[2] \div p
        X == 2 * ((q[3] % p) * 100 + q[4])
        ic == sc + (IF X > 100 * p \/ (X = 100 * p /\ sc % 2 = 1) THEN 1 ELSE 0)
        ib == sb + ic \div Limb
        ra == q[1] \div p + ib \div Limb
    IN IF ra >= 2^13 THEN F64(neg, 2^12, 0, 0, E + 1)
       ELSE F64(neg, ra, ib % Limb, ic % Limb, E)

\* x / 100.0: the quotient rounded to the nearest float64, ties to even,
\* gradually underflowing to a subnormal value or to zero
DivideBy100(x) ==
    IF IsZero(x) THEN x
    ELSE The({The({RoundAt(x.neg, q, 2^(E - (x.exp - 7)), E) :
                      E \in {ResultExp(q, x.exp - 7)}}) :
                 q \in {QuoRem100(Times128(x))}})

\* the float64 of a decimal literal with two places, n/100
Dec(n) == DivideBy100(FromInt(n))

\* ------------------------------------------------------------ entities
TransactionStatusFailed == "FAILED"

Instant0 == <<2024, 1, 15, 10, 30, 45, 0>>
\* time.Now().UTC() as read by the handler
Now == <<2026, 11, 6, 8, 0, 0, 0>>

BaseTxn ==
    [ID |-> "", UserID |-> 1, AccountID |-> "acc-1", TransactionID |-> "T1",
     TransactionType |-> "TOPUP", TransactionStatus |-> "SUCCESS",
     Amount |-> Dec(10050), BalanceBefore |-> 100000, BalanceAfter |-> 110050,
     Currency |-> "IDR", Description |-> <<>>, ExternalReference |-> <<>>,
     PaymentMethod |-> <<>>, Metadata |-> <<>>,
     IsAccessibleFromExternal |-> TRUE,
     CreatedAt |-> Instant0, UpdatedAt |-> Instant0]

IsValidNonNegative(t) ==
    /\ t.UserID > 0
    /\ t.AccountID # ""
    /\ t.TransactionID # ""
    /\ t.TransactionType # ""
    /\ NonNegative(t.Amount)

IsValid(t) ==
    /\ t.UserID > 0
    /\ t.AccountID # ""
    /\ t.TransactionID # ""
    /\ t.TransactionType # ""
    /\ Positive(t.Amount)

\* ---------------------------------------------------------- diagnostics
Log(level, msg) == [level |-> level, msg |-> msg]

MsgExistsFailed == "Failed to check transaction existence"
MsgAlreadyExists == "Transaction already exists, skipping"
MsgBalanceChange == "Failed transaction has balance change"
MsgCreateFailed == "Failed to create transaction"
MsgProcessed == "Transaction processed successfully"

\* ---------------------------------------------------------- repository
NoErr == "nil"
ErrInvalid == "invalid transaction data"
ErrExists == "failed to check transaction existence"
ErrCreate == "failed to create transaction"

GenIds == <<"uuid-1", "uuid-2", "uuid-3", "uuid-4", "uuid-5", "uuid-6">>

\* gen_random_uuid(): an id no row carries
FreshUuid(tbl) ==
    GenIds[CHOOSE n \in 1..Len(GenIds) :
             /\ \A i \in 1..Len(tbl) : tbl[i].ID # GenIds[n]
             /\ \A k \in 1..(n - 1) : \E i \in 1..Len(tbl) : tbl[i].ID = GenIds[k]]

RowsWithPrimaryID(tbl, tid) == {i \in 1..Len(tbl) : tbl[i].ID = tid}

RowsWithWrongColumn(tbl, tid) == {i \in 1..Len(tbl) : tbl[i].ID = tid}

\* the rows a lookup on the transaction_id column finds
RowsWithTransactionID(tbl, tid) == {i \in 1..Len(tbl) : tbl[i].TransactionID = tid}

entityToModelMixedIds(t) ==
    [ID |-> t.ID, UserID |-> t.UserID, AccountID |-> t.AccountID,
     TransactionID |-> t.ID, TransactionType |-> t.TransactionType,
     TransactionStatus |-> t.TransactionStatus, Amount |-> t.Amount,
     BalanceBefore |-> t.BalanceBefore, BalanceAfter |-> t.BalanceAfter,
     Currency |-> t.Currency, Description |-> t.Description,
     ExternalReference |-> t.ExternalReference,
     PaymentMethod |-> IF t.PaymentMethod # <<>> THEN <<t.PaymentMethod[1]>> ELSE <<>>,
     Metadata |-> t.Metadata,
     IsAccessibleFromExternal |-> t.IsAccessibleFromExternal,
     CreatedAt |-> t.CreatedAt, UpdatedAt |-> t.UpdatedAt]

entityToModel(t) ==
    [ID |-> t.ID, UserID |-> t.UserID, AccountID |-> t.AccountID,
     TransactionID |-> t.TransactionID, TransactionType |-> t.TransactionType,
     TransactionStatus |-> t.TransactionStatus, Amount |-> t.Amount,
     BalanceBefore |-> t.BalanceBefore, BalanceAfter |-> t.BalanceAfter,
     Currency |-> t.Currency, Description |-> t.Description,
     ExternalReference |-> t.ExternalReference,
     PaymentMethod |-> IF t.PaymentMethod # <<>> THEN <<t.PaymentMethod[1]>> ELSE <<>>,
     Metadata |-> t.Metadata,
     IsAccessibleFromExternal |-> t.IsAccessibleFromExternal,
     CreatedAt |-> t.CreatedAt, UpdatedAt |-> t.UpdatedAt]

\* the column defaults of TransactionModel, applied to zero-valued fields
WithDefaults(tbl, m) ==
    [m EXCEPT !.ID = IF m.ID = "" THEN FreshUuid(tbl) ELSE m.ID,
              !.Currency = IF m.Currency = "" THEN "IDR" ELSE m.Currency,
              !.IsAccessibleFromExternal =
                  IF m.IsAccessibleFromExternal = FALSE THEN TRUE
                  ELSE m.IsAccessibleFromExternal]

DbInsertLost(tbl, m) ==
    LET row == WithDefaults(tbl, m) IN
    IF RowsWithPrimaryID(tbl, row.ID) # {} THEN [kind |-> "primary_key", rows |-> tbl, row |-> row]
    ELSE IF RowsWithTransactionID(tbl, row.TransactionID) # {}
         THEN [kind |-> "unique_transaction_id", rows |-> tbl, row |-> row]
    ELSE [kind |-> "none", rows |-> tbl, row |-> row]

\* INSERT INTO historical_transactions under its primary key and unique index
DbInsert(tbl, m) ==
    LET row == WithDefaults(tbl, m) IN
    IF RowsWithPrimaryID(tbl, row.ID) # {} THEN [kind |-> "primary_key", rows |-> tbl, row |-> row]
    ELSE IF RowsWithTransactionID(tbl, row.TransactionID) # {}
         THEN [kind |-> "unique_transaction_id", rows |-> tbl, row |-> row]
    ELSE [kind |-> "none", rows |-> Append(tbl, row), row |-> row]

RepoExistsBlind(tbl, up, cancelled, tid) ==
    IF ~up \/ cancelled
    THEN [err |-> ErrExists, exists |-> FALSE]
    ELSE [err |-> NoErr, exists |-> FALSE]

RepoExistsCountsMany(tbl, up, cancelled, tid) ==
    IF ~up \/ cancelled
    THEN [err |-> ErrExists, exists |-> FALSE]
    ELSE [err |-> NoErr, exists |-> Cardinality(RowsWithTransactionID(tbl, tid)) > 1]

\* transactionRepository.Exists: a query fails when the database is down or
\* the context is cancelled
RepoExists(tbl, up, cancelled, tid) ==
    IF ~up \/ cancelled
    THEN [err |-> ErrExists, exists |-> FALSE]
    ELSE [err |-> NoErr, exists |-> Cardinality(RowsWithTransactionID(tbl, tid)) > 0]

RepoCreateKeepsID(tbl, up, cancelled, t) ==
    LET model == entityToModel(t) IN
    IF ~up \/ cancelled
    THEN [err |-> ErrCreate, kind |-> "unavailable", rows |-> tbl, txn |-> t]
    ELSE LET r == DbInsert(tbl, model) IN
         IF r.kind # "none"
         THEN [err |-> ErrCreate, kind |-> r.kind, rows |-> tbl, txn |-> t]
         ELSE [err |-> NoErr, kind |-> "none", rows |-> r.rows, txn |-> t]

RepoCreateLeavesRow(tbl, up, cancelled, t) ==
    LET model == entityToModel(t) IN
    IF ~up \/ cancelled
    THEN [err |-> ErrCreate, kind |-> "unavailable", rows |-> DbInsert(tbl, model).rows,
          txn |-> t]
    ELSE LET r == DbInsert(tbl, model) IN
         IF r.kind # "none"
         THEN [err |-> ErrCreate, kind |-> r.kind, rows |-> tbl, txn |-> t]
         ELSE [err |-> NoErr, kind |-> "none", rows |-> r.rows,
               txn |-> [t EXCEPT !.ID = r.row.ID]]

\* transactionRepository.Create: kind says why the insert failed
RepoCreate(tbl, up, cancelled, t) ==
    LET model == entityToModel(t) IN
    IF ~up \/ cancelled
    THEN [err |-> ErrCreate, kind |-> "unavailable", rows |-> tbl, txn |-> t]
    ELSE LET r == DbInsert(tbl, model) IN
         IF r.kind # "none"
         THEN [err |-> ErrCreate, kind |-> r.kind, rows |-> tbl, txn |-> t]
         ELSE [err |-> NoErr, kind |-> "none", rows |-> r.rows,
               txn |-> [t EXCEPT !.ID = r.row.ID]]

\* ------------------------------------------------------------- use case
Goroutines == {"loop", "w1", "w2"}

IdleFrame ==
    [pc |-> "idle", txn |-> BaseTxn, arg |-> BaseTxn, ctx |-> "background",
     off |-> 0, valid |-> FALSE, err |-> NoErr, calledExists |-> FALSE,
     calledCreate |-> FALSE, existsErr |-> FALSE, createKind |-> "none",
     out |-> <<>>, before |-> <<>>, upAtCall |-> TRUE, doneAtCall |-> FALSE]

\* the frame of a call ProcessTransaction(ctx, t) made while the table is tbl
NewFrame(t, ctx, off, tbl, up) ==
    [IdleFrame EXCEPT !.pc = "validate", !.txn = t, !.arg = t, !.ctx = ctx,
                      !.off = off, !.before = tbl, !.upAtCall = up,
                      !.doneAtCall = (ctx = "consume" /\ ctxDone)]

\* the context a frame runs under is cancelled
Cancelled(f) == f.ctx = "consume" /\ ctxDone

Emit(w, f, entries) ==
    /\ logs' = logs \o entries
    /\ uc' = [uc EXCEPT ![w] = [f EXCEPT !.out = @ \o entries]]

PTValidateSkipped(w) ==
    /\ uc[w].pc = "validate"
    /\ uc' = [uc EXCEPT ![w] = [@ EXCEPT !.pc = "exists", !.valid = TRUE]]
    /\ UNCHANGED <<rows, dbUp, logs, hist, faults, loopVars>>

\* ProcessTransaction, the validation
PTValidate(w) ==
    /\ uc[w].pc = "validate"
    /\ uc' = [uc EXCEPT ![w] =
                IF ~IsValid(@.txn)
                THEN [@ EXCEPT !.pc = "done", !.valid = FALSE, !.err = ErrInvalid]
                ELSE [@ EXCEPT !.pc = "exists", !.valid = TRUE]]
    /\ UNCHANGED <<rows, dbUp, logs, hist, faults, loopVars>>

BalanceWarning(t) ==
    IF t.TransactionStatus = TransactionStatusFailed /\ t.BalanceBefore # t.BalanceAfter
    THEN <<Log("warn", MsgBalanceChange)>>
    ELSE <<>>

PTExistsIgnoresError(w) ==
    /\ uc[w].pc = "exists"
    /\ LET f == uc[w]
           r == RepoExists(rows, dbUp, Cancelled(f), f.txn.TransactionID)
           g == [f EXCEPT !.calledExists = TRUE, !.existsErr = (r.err # NoErr)]
       IN IF r.exists
          THEN Emit(w, [g EXCEPT !.pc = "done", !.err = NoErr],
                    <<Log("info", MsgAlreadyExists)>>)
          ELSE Emit(w, [g EXCEPT !.pc = "create"], BalanceWarning(f.txn))
    /\ UNCHANGED <<rows, dbUp, hist, faults, loopVars>>

PTExistsNoSkip(w) ==
    /\ uc[w].pc = "exists"
    /\ LET f == uc[w]
           r == RepoExists(rows, dbUp, Cancelled(f), f.txn.TransactionID)
           g == [f EXCEPT !.calledExists = TRUE, !.existsErr = (r.err # NoErr)]
       IN IF r.err # NoErr
          THEN Emit(w, [g EXCEPT !.pc = "done", !.err = ErrExists],
                    <<Log("error", MsgExistsFailed)>>)
          ELSE Emit(w, [g EXCEPT !.pc = "create"], BalanceWarning(f.txn))
    /\ UNCHANGED <<rows, dbUp, hist, faults, loopVars>>

PTExistsUpdates(w) ==
    /\ uc[w].pc = "exists"
    /\ LET f == uc[w]
           r == RepoExists(rows, dbUp, Cancelled(f), f.txn.TransactionID)
           g == [f EXCEPT !.calledExists = TRUE, !.existsErr = (r.err # NoErr)]
       IN IF r.err # NoErr
          THEN /\ Emit(w, [g EXCEPT !.pc = "done", !.err = ErrExists],
                       <<Log("error", MsgExistsFailed)>>)
               /\ rows' = rows
          ELSE IF r.exists
          THEN /\ Emit(w, [g EXCEPT !.pc = "done", !.err = NoErr],
                       <<Log("info", MsgAlreadyExists)>>)
               /\ rows' = [i \in 1..Len(rows) |->
                             IF rows[i].TransactionID = f.txn.TransactionID
                             THEN [entityToModel(f.txn) EXCEPT !.ID = rows[i].ID]
                             ELSE rows[i]]
          ELSE /\ Emit(w, [g EXCEPT !.pc = "create"], BalanceWarning(f.txn))
               /\ rows' = rows
    /\ UNCHANGED <<dbUp, hist, faults, loopVars>>

PTExistsAnomalyFails(w) ==
    /\ uc[w].pc = "exists"
    /\ LET f == uc[w]
           r == RepoExists(rows, dbUp, Cancelled(f), f.txn.TransactionID)
           g == [f EXCEPT !.calledExists = TRUE, !.existsErr = (r.err # NoErr)]
       IN IF r.err # NoErr
          THEN Emit(w, [g EXCEPT !.pc = "done", !.err = ErrExists],
                    <<Log("error", MsgExistsFailed)>>)
          ELSE IF r.exists
          THEN Emit(w, [g EXCEPT !.pc = "done", !.err = NoErr],
                    <<Log("info", MsgAlreadyExists)>>)
          ELSE IF BalanceWarning(f.txn) # <<>>
          THEN Emit(w, [g EXCEPT !.pc = "done", !.err = ErrInvalid], BalanceWarning(f.txn))
          ELSE Emit(w, [g EXCEPT !.pc = "create"], BalanceWarning(f.txn))
    /\ UNCHANGED <<rows, dbUp, hist, faults, loopVars>>

PTExistsWarnsAnyStatus(w) ==
    /\ uc[w].pc = "exists"
    /\ LET f == uc[w]
           r == RepoExists(rows, dbUp, Cancelled(f), f.txn.TransactionID)
           g == [f EXCEPT !.calledExists = TRUE, !.existsErr = (r.err # NoErr)]
       IN IF r.err # NoErr
          THEN Emit(w, [g EXCEPT !.pc = "done", !.err = ErrExists],
                    <<Log("error", MsgExistsFailed)>>)
          ELSE IF r.exists
          THEN Emit(w, [g EXCEPT !.pc = "done", !.err = NoErr],
                    <<Log("info", MsgAlreadyExists)>>)
          ELSE Emit(w, [g EXCEPT !.pc = "create"],
                    BalanceWarning([f.txn EXCEPT !.TransactionStatus = TransactionStatusFailed]))
    /\ UNCHANGED <<rows, dbUp, hist, faults, loopVars>>

\* ProcessTransaction, the existence check and what follows it up to Create
PTExists(w) ==
    /\ uc[w].pc = "exists"
    /\ LET f == uc[w]
           r == RepoExists(rows, dbUp, Cancelled(f), f.txn.TransactionID)
           g == [f EXCEPT !.calledExists = TRUE, !.existsErr = (r.err # NoErr)]
       IN IF r.err # NoErr
          THEN Emit(w, [g EXCEPT !.pc = "done", !.err = ErrExists],
                    <<Log("error", MsgExistsFailed)>>)
          ELSE IF r.exists
          THEN Emit(w, [g EXCEPT !.pc = "done", !.err = NoErr],
                    <<Log("info", MsgAlreadyExists)>>)
          ELSE Emit(w, [g EXCEPT !.pc = "create"], BalanceWarning(f.txn))
    /\ UNCHANGED <<rows, dbUp, hist, faults, loopVars>>

\* ProcessTransaction, the create and the return
PTCreate(w) ==
    /\ uc[w].pc = "create"
    /\ LET f == uc[w]
           r == RepoCreate(rows, dbUp, Cancelled(f), f.txn)
           g == [f EXCEPT !.calledCreate = TRUE, !.createKind = r.kind, !.txn = r.txn]
       IN /\ rows' = r.rows
          /\ IF r.err # NoErr
             THEN Emit(w, [g EXCEPT !.pc = "done", !.err = ErrCreate],
                       <<Log("error", MsgCreateFailed)>>)
             ELSE Emit(w, [g EXCEPT !.pc = "done", !.err = NoErr],
                       <<Log("info", MsgProcessed)>>)
    /\ UNCHANGED <<dbUp, hist, faults, loopVars>>

\* what a finished call is remembered by
Completed(w, f, tbl) ==
    [w |-> w, off |-> f.off, arg |-> f.arg, txn |-> f.txn, valid |-> f.valid,
     err |-> f.err, calledExists |-> f.calledExists, calledCreate |-> f.calledCreate,
     existsErr |-> f.existsErr, createKind |-> f.createKind, out |-> f.out,
     before |-> f.before, after |-> tbl, upAtCall |-> f.upAtCall,
     doneAtCall |-> f.doneAtCall]

\* the outcome of section 4.3 that a finished call stands for
Outcome(h) ==
    CASE h.err = ErrInvalid -> "Rejected"
      [] h.err \in {ErrExists, ErrCreate} -> "Failed"
      [] h.err = NoErr /\ h.calledCreate -> "Written"
      [] OTHER -> "Skipped"

\* ----------------------------------------------------------- environment
DbOutage ==
    /\ cpc # "panicked"
    /\ dbUp
    /\ faults < MaxFaults
    /\ dbUp' = FALSE
    /\ faults' = faults + 1
    /\ UNCHANGED <<rows, logs, uc, hist, loopVars>>

DbRecover ==
    /\ cpc # "panicked"
    /\ ~dbUp
    /\ dbUp' = TRUE
    /\ UNCHANGED <<rows, logs, uc, hist, faults, loopVars>>

\* ------------------------------------------------ callers of the use case
ValidRecords ==
    {BaseTxn,
     [BaseTxn EXCEPT !.TransactionStatus = "FAILED", !.BalanceAfter = 100000],
     [BaseTxn EXCEPT !.ID = "id-1", !.TransactionStatus = "FAILED"],
     [BaseTxn EXCEPT !.TransactionID = "T2"],
     [BaseTxn EXCEPT !.ID = "id-1", !.TransactionID = "T2", !.TransactionStatus = "FAILED"]}

InvalidRecords ==
    {[BaseTxn EXCEPT !.UserID = 0], [BaseTxn EXCEPT !.AccountID = ""],
     [BaseTxn EXCEPT !.TransactionID = ""], [BaseTxn EXCEPT !.TransactionType = ""],
     [BaseTxn EXCEPT !.Amount = FromInt(0)]}

CallRecords == ValidRecords \cup InvalidRecords

ValidityRecords ==
    {[BaseTxn EXCEPT !.UserID = u, !.AccountID = a, !.TransactionID = t,
                     !.TransactionType = y, !.Amount = m] :
        u \in {-1, 0, 1}, a \in {"", "acc-1"}, t \in {"", "T1"},
        y \in {"", "TOPUP", "BOGUS"}, m \in {Dec(-100), FromInt(0), Dec(1), Dec(10050)}}

\* rows left by earlier runs
SeedRows ==
    {entityToModel([BaseTxn EXCEPT !.ID = "id-1", !.TransactionID = "T2", !.Amount = Dec(500)])}

InitTables == {<<>>} \cup {<<r>> : r \in SeedRows}

Active == {w \in Goroutines : uc[w].pc # "idle"}

\* a test or another writer calls ProcessTransaction(context.Background(), t)
Call(w, t) ==
    /\ uc[w].pc = "idle"
    /\ Len(hist) + Cardinality(Active) < MaxCalls
    /\ uc' = [uc EXCEPT ![w] = NewFrame(t, "background", 0, rows, dbUp)]
    /\ UNCHANGED <<rows, dbUp, logs, hist, faults, loopVars>>

\* the call returns to its caller
Return(w) ==
    /\ uc[w].pc = "done"
    /\ hist' = Append(hist, Completed(w, uc[w], rows))
    /\ uc' = [uc EXCEPT ![w] = IdleFrame]
    /\ UNCHANGED <<rows, dbUp, logs, faults, loopVars>>

InitLoopIdle ==
    /\ kafka = <<>>
    /\ pos = 0
    /\ cursor = 0
    /\ cpc = "unused"
    /\ cur = 0
    /\ ctxDone = FALSE
    /\ ret = "running"
    /\ herr = NoErr

InitCommon ==
    /\ dbUp = TRUE
    /\ logs = <<>>
    /\ hist = <<>>
    /\ faults = 0

InitUC ==
    /\ InitCommon
    /\ rows \in InitTables
    /\ InitLoopIdle
    /\ uc = [w \in Goroutines |-> IdleFrame]

Steps(w) ==
    \/ \E t \in CallRecords : Call(w, t)
    \/ PTValidate(w)
    \/ PTExists(w)
    \/ PTCreate(w)
    \/ Return(w)

NextUC ==
    \/ Steps("w1")
    \/ DbOutage
    \/ DbRecover

\* one caller at a time: the unit tests, or the loop seen from the use case
SpecUC == InitUC /\ [][NextUC]_vars

NextRace ==
    \/ \E w \in {"w1", "w2"} : Steps(w)
    \/ DbOutage
    \/ DbRecover

\* two writers on the same table
SpecRace == InitUC /\ [][NextRace]_vars

InitValid ==
    /\ InitCommon
    /\ rows \in InitTables
    /\ InitLoopIdle
    /\ \E t \in ValidityRecords :
          uc = [w \in Goroutines |->
                  IF w = "w1" THEN NewFrame(t, "background", 0, rows, dbUp) ELSE IdleFrame]

NextValid == PTValidate("w1")

\* IsValid applied to every combination of the fields it reads
SpecValid == InitValid /\ [][NextValid]_vars
TransactionTypes == {"TOPUP", "PAYMENT", "REFUND", "TRANSFER"}

\* valid records of every transaction type, with and without an ID of their own
TypeRecords ==
    {[BaseTxn EXCEPT !.TransactionType = y, !.ID = d,
                     !.TransactionID = IF y \in {"TOPUP", "PAYMENT"} THEN "T1" ELSE "T3"] :
        y \in TransactionTypes, d \in {"", "id-1"}}

NextTypes ==
    \/ \E t \in TypeRecords : Call("w1", t)
    \/ PTValidate("w1")
    \/ PTExists("w1")
    \/ PTCreate("w1")
    \/ Return("w1")
    \/ DbOutage
    \/ DbRecover

\* one caller writing records of each transaction type
SpecTypes == InitUC /\ [][NextTypes]_vars
\* records of each status, with equal and with differing balances, valid and
\* invalid, under the transaction id of the seeded row
StatusRecords ==
    {[BaseTxn EXCEPT !.TransactionID = "T2", !.TransactionStatus = st,
                     !.BalanceAfter = b, !.Amount = a] :
        st \in {"SUCCESS", "FAILED"}, b \in {100000, 110050},
        a \in {FromInt(0), Dec(10050)}}

NextStatus ==
    \/ \E t \in StatusRecords : Call("w1", t)
    \/ PTValidate("w1")
    \/ PTExists("w1")
    \/ PTCreate("w1")
    \/ Return("w1")
    \/ DbOutage
    \/ DbRecover

\* one caller handing over records of each status and balance pair
SpecStatus == InitUC /\ [][NextStatus]_vars
\* the identical record with equal balances
Twin(t) == [t EXCEPT !.BalanceAfter = t.BalanceBefore]

\* FAILED-status records, valid and invalid, with differing balances
AnomalyRecords ==
    {[BaseTxn EXCEPT !.TransactionStatus = TransactionStatusFailed, !.ID = d,
                     !.TransactionID = t, !.Amount = a] :
        d \in {"", "id-1"}, t \in {"T1", "T2"}, a \in {FromInt(0), Dec(10050)}}

\* a further test hands the identical record with equal balances to
\* ProcessTransaction, on a repository set up in the state the first call met
CallTwin(w) ==
    /\ uc[w].pc = "idle"
    /\ hist # <<>>
    /\ Len(hist) < MaxCalls
    /\ rows' = hist[1].before
    /\ uc' = [uc EXCEPT ![w] = NewFrame(Twin(hist[1].arg), "background", 0, hist[1].before, dbUp)]
    /\ UNCHANGED <<dbUp, logs, hist, faults, loopVars>>

NextTwin ==
    \/ \E t \in AnomalyRecords : hist = <<>> /\ Call("w1", t)
    \/ CallTwin("w1")
    \/ PTValidate("w1")
    \/ PTExists("w1")
    \/ PTCreate("w1")
    \/ Return("w1")
    \/ DbOutage
    \/ DbRecover

\* a record with a balance anomaly, then its twin, each on the same storage
SpecTwin == InitUC /\ [][NextTwin]_vars
\* ------------------------------------------------------------- handler
\* a member of a decoded JSON array: a number (float64), held in halves so
\* that h stands for h/2, or a value of another JSON type
Num(v) == [num |-> TRUE, h |-> 2 * v]
NumAndHalf(v) == [num |-> TRUE, h |-> 2 * v + 1]
NotANumber == [num |-> FALSE, h |-> 0]

Array7 == <<Num(2024), Num(1), Num(15), Num(10), Num(30), Num(45), Num(0)>>
Array6 == <<Num(2024), Num(1), Num(15), Num(10), Num(30), Num(45)>>
Array3 == <<Num(2024), Num(1), Num(15)>>
ArrayText == <<Num(2024), NotANumber, Num(15), Num(10), Num(30), Num(45)>>

ZeroTime == <<1, 1, 1, 0, 0, 0, 0>>

\* KafkaTransactionMessage; Amount is in minor units
BaseMsg ==
    [ID |-> "", UserID |-> 1, AccountID |-> "acc-1", TransactionID |-> "T1",
     TransactionType |-> "TOPUP", TransactionStatus |-> "SUCCESS",
     Amount |-> FromInt(10050), BalanceBefore |-> 100000, BalanceAfter |-> 110050,
     Currency |-> "IDR", Description |-> "", ExternalReference |-> <<>>,
     PaymentMethod |-> "", Metadata |-> <<>>,
     IsAccessibleFromExternal |-> TRUE,
     CreatedAt |-> Array7, UpdatedAt |-> Array6]

\* int(x) of a float64 x within int's range: the fraction is discarded
ToInt(m) == IF m.h >= 0 THEN m.h \div 2 ELSE -((-m.h) \div 2)

\* days from 1970-01-01 to the first day of a month of the proleptic
\* Gregorian calendar, month in 1..12
DaysBeforeMonth(year, month) ==
    LET y == IF month <= 2 THEN year - 1 ELSE year
        era == y \div 400
        yoe == y - era * 400
        doy == (153 * (IF month > 2 THEN month - 3 ELSE month + 9) + 2) \div 5
    IN era * 146097 + yoe * 365 + yoe \div 4 - yoe \div 100 + doy - 719468

\* the year of its 400-year era in which day doe of the era falls
YearOfEra(doe) == (doe - doe \div 1460 + doe \div 36524 - doe \div 146096) \div 365

\* the year, month and day of day doy of the year y that starts in March
MonthAndDay(y, doy) ==
    LET mp == (5 * doy + 2) \div 153
        month == IF mp < 10 THEN mp + 3 ELSE mp - 9
    IN <<y + (IF month <= 2 THEN 1 ELSE 0), month, doy - (153 * mp + 2) \div 5 + 1>>

\* the year, month and day of the day z days after 1970-01-01
CivilFromDays(z) ==
    The({The({MonthAndDay(yoe + (n \div 146097) * 400,
                          (n % 146097) - (365 * yoe + yoe \div 4 - yoe \div 100)) :
                 yoe \in {YearOfEra(n % 146097)}}) :
            n \in {z + 719468}})

\* time.Date(..., time.UTC): values outside their usual ranges are
\* normalized, each overflow carried into the next larger unit
Date(year, month, day, hour, min, sec, nsec) ==
    LET y1 == year + (month - 1) \div 12
        m1 == ((month - 1) % 12) + 1
        s1 == sec + nsec \div 1000000000
        mi1 == min + s1 \div 60
        h1 == hour + mi1 \div 60
        d1 == day + h1 \div 24
    IN CivilFromDays(DaysBeforeMonth(y1, m1) + d1 - 1)
       \o <<h1 % 24, mi1 % 60, s1 % 60, nsec % 1000000000>>

parseTimestampDropsNanosecond(arr) ==
    IF Len(arr) < 6
    THEN [err |-> TRUE, panic |-> FALSE, t |-> ZeroTime]
    ELSE IF \E i \in 1..(IF Len(arr) > 6 THEN 7 ELSE 6) : ~arr[i].num
    THEN [err |-> FALSE, panic |-> TRUE, t |-> ZeroTime]
    ELSE [err |-> FALSE, panic |-> FALSE,
          t |-> Date(ToInt(arr[1]), ToInt(arr[2]), ToInt(arr[3]), ToInt(arr[4]),
                     ToInt(arr[5]), ToInt(arr[6]), 0)]

\* parseTimestamp: the type assertion .(float64) panics on a member that is
\* no number
parseTimestamp(arr) ==
    IF Len(arr) < 6
    THEN [err |-> TRUE, panic |-> FALSE, t |-> ZeroTime]
    ELSE IF \E i \in 1..(IF Len(arr) > 6 THEN 7 ELSE 6) : ~arr[i].num
    THEN [err |-> FALSE, panic |-> TRUE, t |-> ZeroTime]
    ELSE [err |-> FALSE, panic |-> FALSE,
          t |-> Date(ToInt(arr[1]), ToInt(arr[2]), ToInt(arr[3]), ToInt(arr[4]),
                     ToInt(arr[5]), ToInt(arr[6]),
                     IF Len(arr) > 6 THEN ToInt(arr[7]) ELSE 0)]

CentsToDecimalTwice(a) == DivideBy100(DivideBy100(a))

\* float64(msg.Amount) / 100.0
CentsToDecimal(a) == DivideBy100(a)

MsgCreatedAtFallback == "Failed to parse createdAt, using current time"
MsgUpdatedAtFallback == "Failed to parse updatedAt, using current time"

kafkaMessageToEntitySharedFallback(msg) ==
    LET c == parseTimestamp(msg.CreatedAt)
        u == parseTimestamp(msg.UpdatedAt)
    IN [panic |-> c.panic \/ u.panic,
        warns |-> (IF c.err THEN <<Log("warn", MsgCreatedAtFallback)>> ELSE <<>>)
                  \o (IF ~c.panic /\ u.err THEN <<Log("warn", MsgUpdatedAtFallback)>> ELSE <<>>),
        txn |-> [ID |-> msg.ID, UserID |-> msg.UserID, AccountID |-> msg.AccountID,
                 TransactionID |-> msg.TransactionID,
                 TransactionType |-> msg.TransactionType,
                 TransactionStatus |-> msg.TransactionStatus,
                 Amount |-> CentsToDecimal(msg.Amount),
                 BalanceBefore |-> msg.BalanceBefore, BalanceAfter |-> msg.BalanceAfter,
                 Currency |-> msg.Currency,
                 Description |-> IF msg.Description # "" THEN <<msg.Description>> ELSE <<>>,
                 ExternalReference |-> msg.ExternalReference,
                 PaymentMethod |-> IF msg.PaymentMethod # "" THEN <<msg.PaymentMethod>> ELSE <<>>,
                 Metadata |-> msg.Metadata,
                 IsAccessibleFromExternal |-> msg.IsAccessibleFromExternal,
                 CreatedAt |-> IF c.err \/ u.err THEN Now ELSE c.t,
                 UpdatedAt |-> IF c.err \/ u.err THEN Now ELSE u.t]]

kafkaMessageToEntityKeepsEmptyText(msg) ==
    LET c == parseTimestamp(msg.CreatedAt)
        u == parseTimestamp(msg.UpdatedAt)
    IN [panic |-> c.panic \/ u.panic,
        warns |-> (IF c.err THEN <<Log("warn", MsgCreatedAtFallback)>> ELSE <<>>)
                  \o (IF ~c.panic /\ u.err THEN <<Log("warn", MsgUpdatedAtFallback)>> ELSE <<>>),
        txn |-> [ID |-> msg.ID, UserID |-> msg.UserID, AccountID |-> msg.AccountID,
                 TransactionID |-> msg.TransactionID,
                 TransactionType |-> msg.TransactionType,
                 TransactionStatus |-> msg.TransactionStatus,
                 Amount |-> CentsToDecimal(msg.Amount),
                 BalanceBefore |-> msg.BalanceBefore, BalanceAfter |-> msg.BalanceAfter,
                 Currency |-> msg.Currency,
                 Description |-> <<msg.Description>>,
                 ExternalReference |-> msg.ExternalReference,
                 PaymentMethod |-> IF msg.PaymentMethod # "" THEN <<msg.PaymentMethod>> ELSE <<>>,
                 Metadata |-> msg.Metadata,
                 IsAccessibleFromExternal |-> msg.IsAccessibleFromExternal,
                 CreatedAt |-> IF c.err THEN Now ELSE c.t,
                 UpdatedAt |-> IF u.err THEN Now ELSE u.t]]

kafkaMessageToEntityDropsMetadata(msg) ==
    LET c == parseTimestamp(msg.CreatedAt)
        u == parseTimestamp(msg.UpdatedAt)
    IN [panic |-> c.panic \/ u.panic,
        warns |-> (IF c.err THEN <<Log("warn", MsgCreatedAtFallback)>> ELSE <<>>)
                  \o (IF ~c.panic /\ u.err THEN <<Log("warn", MsgUpdatedAtFallback)>> ELSE <<>>),
        txn |-> [ID |-> msg.ID, UserID |-> msg.UserID, AccountID |-> msg.AccountID,
                 TransactionID |-> msg.TransactionID,
                 TransactionType |-> msg.TransactionType,
                 TransactionStatus |-> msg.TransactionStatus,
                 Amount |-> CentsToDecimal(msg.Amount),
                 BalanceBefore |-> msg.BalanceBefore, BalanceAfter |-> msg.BalanceAfter,
                 Currency |-> msg.Currency,
                 Description |-> IF msg.Description # "" THEN <<msg.Description>> ELSE <<>>,
                 ExternalReference |-> msg.ExternalReference,
                 PaymentMethod |-> IF msg.PaymentMethod # "" THEN <<msg.PaymentMethod>> ELSE <<>>,
                 Metadata |-> <<>>,
                 IsAccessibleFromExternal |-> msg.IsAccessibleFromExternal,
                 CreatedAt |-> IF c.err THEN Now ELSE c.t,
                 UpdatedAt |-> IF u.err THEN Now ELSE u.t]]

\* kafkaMessageToEntity: the record, the warnings logged, and whether it panicked
kafkaMessageToEntity(msg) ==
    LET c == parseTimestamp(msg.CreatedAt)
        u == parseTimestamp(msg.UpdatedAt)
    IN [panic |-> c.panic \/ u.panic,
        warns |-> (IF c.err THEN <<Log("warn", MsgCreatedAtFallback)>> ELSE <<>>)
                  \o (IF ~c.panic /\ u.err THEN <<Log("warn", MsgUpdatedAtFallback)>> ELSE <<>>),
        txn |-> [ID |-> msg.ID, UserID |-> msg.UserID, AccountID |-> msg.AccountID,
                 TransactionID |-> msg.TransactionID,
                 TransactionType |-> msg.TransactionType,
                 TransactionStatus |-> msg.TransactionStatus,
                 Amount |-> CentsToDecimal(msg.Amount),
                 BalanceBefore |-> msg.BalanceBefore, BalanceAfter |-> msg.BalanceAfter,
                 Currency |-> msg.Currency,
                 Description |-> IF msg.Description # "" THEN <<msg.Description>> ELSE <<>>,
                 ExternalReference |-> msg.ExternalReference,
                 PaymentMethod |-> IF msg.PaymentMethod # "" THEN <<msg.PaymentMethod>> ELSE <<>>,
                 Metadata |-> msg.Metadata,
                 IsAccessibleFromExternal |-> msg.IsAccessibleFromExternal,
                 CreatedAt |-> IF c.err THEN Now ELSE c.t,
                 UpdatedAt |-> IF u.err THEN Now ELSE u.t]]

\* a message value: bytes json.Unmarshal rejects, or an encoded message
Undecodable == [decodes |-> FALSE, body |-> BaseMsg]
Encoded(m) == [decodes |-> TRUE, body |-> m]

Messages ==
    {Undecodable,
     Encoded(BaseMsg),
     Encoded([BaseMsg EXCEPT !.ID = "id-1", !.TransactionStatus = "FAILED",
                             !.Description = "retry", !.PaymentMethod = "GOPAY"]),
     Encoded([BaseMsg EXCEPT !.Amount = FromInt(0)]),
     Encoded([BaseMsg EXCEPT !.ID = "id-1", !.TransactionID = "T2", !.CreatedAt = Array3]),
     Encoded([BaseMsg EXCEPT !.UpdatedAt = ArrayText])}

ErrUnmarshal == "failed to unmarshal message"
ErrProcess == "failed to process transaction"
ErrCanceled == "context canceled"

\* --------------------------------------------------------------- Consume
\* Consume, entry
ConsumeStart ==
    /\ cpc = "start"
    /\ logs' = Append(logs, Log("info", "Starting Kafka consumer"))
    /\ cpc' = "select"
    /\ UNCHANGED <<rows, dbUp, uc, hist, faults, kafka, pos, cursor, cur, ctxDone, ret, herr>>

\* the select at the top of the loop
ConsumeSelect ==
    /\ cpc = "select"
    /\ IF ctxDone
       THEN /\ logs' = Append(logs, Log("info", "Consumer context cancelled, stopping..."))
            /\ ret' = ErrCanceled
            /\ cpc' = "returned"
       ELSE /\ cpc' = "fetch"
            /\ UNCHANGED <<logs, ret>>
    /\ UNCHANGED <<rows, dbUp, uc, hist, faults, kafka, pos, cursor, cur, ctxDone, herr>>

FetchDeliversAutoCommit ==
    /\ cpc = "fetch"
    /\ pos < Len(kafka)
    /\ pos' = pos + 1
    /\ cur' = pos + 1
    /\ cursor' = pos + 1
    /\ cpc' = "handle"
    /\ UNCHANGED <<rows, dbUp, logs, uc, hist, faults, kafka, ctxDone, ret, herr>>

FetchDeliversFromCursor ==
    /\ cpc = "fetch"
    /\ cursor < Len(kafka)
    /\ pos' = cursor + 1
    /\ cur' = cursor + 1
    /\ cpc' = "handle"
    /\ UNCHANGED <<rows, dbUp, logs, uc, hist, faults, kafka, cursor, ctxDone, ret, herr>>

\* FetchMessage returns the next message
FetchDelivers ==
    /\ cpc = "fetch"
    /\ pos < Len(kafka)
    /\ pos' = pos + 1
    /\ cur' = pos + 1
    /\ cpc' = "handle"
    /\ UNCHANGED <<rows, dbUp, logs, uc, hist, faults, kafka, cursor, ctxDone, ret, herr>>

\* FetchMessage returns context.Canceled
FetchCancelled ==
    /\ cpc = "fetch"
    /\ ctxDone
    /\ ret' = NoErr
    /\ cpc' = "returned"
    /\ UNCHANGED <<rows, dbUp, logs, uc, hist, faults, kafka, pos, cursor, cur, ctxDone, herr>>

FetchFailsReturns ==
    /\ cpc = "fetch"
    /\ faults < MaxFaults
    /\ faults' = faults + 1
    /\ logs' = Append(logs, Log("error", "Failed to fetch message"))
    /\ ret' = "fetch error"
    /\ cpc' = "returned"
    /\ UNCHANGED <<rows, dbUp, uc, hist, kafka, pos, cursor, cur, ctxDone, herr>>

\* FetchMessage returns another error: log, sleep, continue
FetchFails ==
    /\ cpc = "fetch"
    /\ faults < MaxFaults
    /\ faults' = faults + 1
    /\ logs' = Append(logs, Log("error", "Failed to fetch message"))
    /\ cpc' = "select"
    /\ UNCHANGED <<rows, dbUp, uc, hist, kafka, pos, cursor, cur, ctxDone, ret, herr>>

HandleMessageAsync ==
    /\ cpc = "handle"
    /\ LET m == kafka[cur]
           tr == kafkaMessageToEntity(m.body)
           received == <<Log("debug", "Received message")>>
       IN IF ~m.decodes
          THEN /\ logs' = logs \o received
               /\ herr' = ErrUnmarshal
               /\ cpc' = "handled"
               /\ uc' = uc
          ELSE IF tr.panic
          THEN /\ logs' = logs \o received \o <<Log("debug", "Unmarshalled message")>> \o tr.warns
               /\ cpc' = "panicked"
               /\ UNCHANGED <<herr, uc>>
          ELSE /\ logs' = logs \o received \o <<Log("debug", "Unmarshalled message")>> \o tr.warns
               /\ uc' = [uc EXCEPT !["loop"] = NewFrame(tr.txn, "consume", cur, rows, dbUp)]
               /\ cpc' = "handled"
               /\ herr' = NoErr
    /\ UNCHANGED <<rows, dbUp, hist, faults, kafka, pos, cursor, cur, ctxDone, ret>>

HandleMessageIgnoresDecodeError ==
    /\ cpc = "handle"
    /\ LET m == kafka[cur]
           tr == kafkaMessageToEntity(m.body)
           received == <<Log("debug", "Received message")>>
       IN IF tr.panic
          THEN /\ logs' = logs \o received \o <<Log("debug", "Unmarshalled message")>> \o tr.warns
               /\ cpc' = "panicked"
               /\ UNCHANGED <<herr, uc>>
          ELSE /\ logs' = logs \o received \o <<Log("debug", "Unmarshalled message")>> \o tr.warns
               /\ uc' = [uc EXCEPT !["loop"] = NewFrame(tr.txn, "consume", cur, rows, dbUp)]
               /\ cpc' = "process"
               /\ herr' = herr
    /\ UNCHANGED <<rows, dbUp, hist, faults, kafka, pos, cursor, cur, ctxDone, ret>>

\* HandleMessage up to its call of ProcessTransaction
HandleMessage ==
    /\ cpc = "handle"
    /\ LET m == kafka[cur]
           tr == kafkaMessageToEntity(m.body)
           received == <<Log("debug", "Received message")>>
       IN IF ~m.decodes
          THEN /\ logs' = logs \o received
               /\ herr' = ErrUnmarshal
               /\ cpc' = "handled"
               /\ uc' = uc
          ELSE IF tr.panic
          THEN /\ logs' = logs \o received \o <<Log("debug", "Unmarshalled message")>> \o tr.warns
               /\ cpc' = "panicked"
               /\ UNCHANGED <<herr, uc>>
          ELSE /\ logs' = logs \o received \o <<Log("debug", "Unmarshalled message")>> \o tr.warns
               /\ uc' = [uc EXCEPT !["loop"] = NewFrame(tr.txn, "consume", cur, rows, dbUp)]
               /\ cpc' = "process"
               /\ herr' = herr
    /\ UNCHANGED <<rows, dbUp, hist, faults, kafka, pos, cursor, cur, ctxDone, ret>>

HandlerReturnAcknowledges ==
    /\ cpc = "process"
    /\ uc["loop"].pc = "done"
    /\ herr' = IF uc["loop"].err = NoErr THEN NoErr ELSE ErrProcess
    /\ hist' = Append(hist, Completed("loop", uc["loop"], rows))
    /\ uc' = [uc EXCEPT !["loop"] = IdleFrame]
    /\ cursor' = IF uc["loop"].err = NoErr THEN cur ELSE cursor
    /\ cpc' = "handled"
    /\ UNCHANGED <<rows, dbUp, logs, faults, kafka, pos, cur, ctxDone, ret>>

\* ProcessTransaction returns to HandleMessage, which returns to Consume
HandlerReturn ==
    /\ cpc = "process"
    /\ uc["loop"].pc = "done"
    /\ herr' = IF uc["loop"].err = NoErr THEN NoErr ELSE ErrProcess
    /\ hist' = Append(hist, Completed("loop", uc["loop"], rows))
    /\ uc' = [uc EXCEPT !["loop"] = IdleFrame]
    /\ cpc' = "handled"
    /\ UNCHANGED <<rows, dbUp, logs, faults, kafka, pos, cursor, cur, ctxDone, ret>>

ConsumeHandledSkipsCommit ==
    /\ cpc = "handled"
    /\ logs' = IF herr # NoErr
               THEN Append(logs, Log("error", "Failed to process message"))
               ELSE logs
    /\ cpc' = IF herr # NoErr THEN "select" ELSE "commit"
    /\ herr' = NoErr
    /\ UNCHANGED <<rows, dbUp, uc, hist, faults, kafka, pos, cursor, cur, ctxDone, ret>>

ConsumeHandledReturnsOnError ==
    /\ cpc = "handled"
    /\ logs' = IF herr # NoErr
               THEN Append(logs, Log("error", "Failed to process message"))
               ELSE logs
    /\ cpc' = IF herr # NoErr THEN "returned" ELSE "commit"
    /\ ret' = IF herr # NoErr THEN herr ELSE ret
    /\ herr' = NoErr
    /\ UNCHANGED <<rows, dbUp, uc, hist, faults, kafka, pos, cursor, cur, ctxDone>>

ConsumeHandledRetriesOnce ==
    /\ cpc = "handled"
    /\ logs' = IF herr # NoErr
               THEN Append(logs, Log("error", "Failed to process message"))
               ELSE logs
    /\ herr' = NoErr
    /\ cpc' = IF herr # NoErr /\ Len(logs) < 2 * cur + 4 THEN "handle" ELSE "commit"
    /\ UNCHANGED <<rows, dbUp, uc, hist, faults, kafka, pos, cursor, cur, ctxDone, ret>>

\* Consume logs the handler's error and goes on to the commit
ConsumeHandled ==
    /\ cpc = "handled"
    /\ logs' = IF herr # NoErr
               THEN Append(logs, Log("error", "Failed to process message"))
               ELSE logs
    /\ herr' = NoErr
    /\ cpc' = "commit"
    /\ UNCHANGED <<rows, dbUp, uc, hist, faults, kafka, pos, cursor, cur, ctxDone, ret>>

\* CommitMessages succeeds
CommitOk ==
    /\ cpc = "commit"
    /\ cursor' = cur
    /\ cpc' = "select"
    /\ UNCHANGED <<rows, dbUp, logs, uc, hist, faults, kafka, pos, cur, ctxDone, ret, herr>>

CommitFailsReturns ==
    /\ cpc = "commit"
    /\ ctxDone \/ faults < MaxFaults
    /\ faults' = IF ctxDone THEN faults ELSE faults + 1
    /\ logs' = Append(logs, Log("error", "Failed to commit message"))
    /\ ret' = "commit error"
    /\ cpc' = "returned"
    /\ UNCHANGED <<rows, dbUp, uc, hist, kafka, pos, cursor, cur, ctxDone, herr>>

\* CommitMessages fails: the broker is away, or the context is cancelled
CommitFails ==
    /\ cpc = "commit"
    /\ ctxDone \/ faults < MaxFaults
    /\ faults' = IF ctxDone THEN faults ELSE faults + 1
    /\ logs' = Append(logs, Log("error", "Failed to commit message"))
    /\ cpc' = "select"
    /\ UNCHANGED <<rows, dbUp, uc, hist, kafka, pos, cursor, cur, ctxDone, ret, herr>>

\* main receives the signal and calls cancel()
Cancel ==
    /\ cpc \notin {"returned", "panicked", "unused"}
    /\ ~ctxDone
    /\ ctxDone' = TRUE
    /\ UNCHANGED <<rows, dbUp, logs, uc, hist, faults, kafka, pos, cursor, cpc, cur, ret, herr>>

Logs == UNION {[1..n -> Messages] : n \in 0..MaxLog}

Init ==
    /\ InitCommon
    /\ rows = <<>>
    /\ uc = [w \in Goroutines |-> IdleFrame]
    /\ kafka \in Logs
    /\ pos = 0
    /\ cursor = 0
    /\ cpc = "start"
    /\ cur = 0
    /\ ctxDone = FALSE
    /\ ret = "running"
    /\ herr = NoErr

Next ==
    \/ ConsumeStart
    \/ ConsumeSelect
    \/ FetchDelivers
    \/ FetchCancelled
    \/ FetchFails
    \/ HandleMessage
    \/ PTValidate("loop")
    \/ PTExists("loop")
    \/ PTCreate("loop")
    \/ HandlerReturn
    \/ ConsumeHandled
    \/ CommitOk
    \/ CommitFails
    \/ Cancel
    \/ DbOutage
    \/ DbRecover

\* the single-worker pipeline: main's goroutine running Consume
Spec == Init /\ [][Next]_vars
\* the fetch failures in a row that the loop has just been through
ConsecutiveFetchFailures ==
    Cardinality({k \in 1..Len(logs) :
        \A j \in (Len(logs) - k + 1)..Len(logs) :
            logs[j] = Log("error", "Failed to fetch message")})

\* the fetch failures the loop has logged
FetchFailuresLogged ==
    Cardinality({k \in 1..Len(logs) : logs[k] = Log("error", "Failed to fetch message")})

FetchRetryGivesUp ==
    /\ cpc = "fetch"
    /\ FetchFailuresLogged < MaxRetries
    /\ logs' = Append(logs, Log("error", "Failed to fetch message"))
    /\ IF ConsecutiveFetchFailures >= 1
       THEN ret' = "fetch error" /\ cpc' = "returned"
       ELSE ret' = ret /\ cpc' = "select"
    /\ UNCHANGED <<rows, dbUp, uc, hist, faults, kafka, pos, cursor, cur, ctxDone, herr>>

\* FetchMessage returns another error, any number of times in a row: log,
\* sleep, continue
FetchRetry ==
    /\ cpc = "fetch"
    /\ FetchFailuresLogged < MaxRetries
    /\ logs' = Append(logs, Log("error", "Failed to fetch message"))
    /\ cpc' = "select"
    /\ UNCHANGED <<rows, dbUp, uc, hist, faults, kafka, pos, cursor, cur, ctxDone, ret, herr>>

LiveMessages ==
    {Undecodable,
     Encoded(BaseMsg),
     Encoded([BaseMsg EXCEPT !.UpdatedAt = ArrayText])}

LiveLogs == UNION {[1..n -> LiveMessages] : n \in 0..MaxLog}

InitLive ==
    /\ InitCommon
    /\ rows = <<>>
    /\ uc = [w \in Goroutines |-> IdleFrame]
    /\ kafka \in LiveLogs
    /\ pos = 0
    /\ cursor = 0
    /\ cpc = "start"
    /\ cur = 0
    /\ ctxDone = FALSE
    /\ ret = "running"
    /\ herr = NoErr

\* the steps the goroutine running Consume takes by itself
LoopStep ==
    \/ ConsumeStart
    \/ ConsumeSelect
    \/ HandleMessage
    \/ PTValidate("loop")
    \/ PTExists("loop")
    \/ PTCreate("loop")
    \/ HandlerReturn
    \/ ConsumeHandled
    \/ CommitOk
    \/ CommitFails

NextLive ==
    \/ LoopStep
    \/ FetchDelivers
    \/ FetchRetry
    \/ DbOutage
    \/ DbRecover

\* the pipeline that no signal stops, with a goroutine that keeps running and
\* a reader whose FetchMessage, called again and again, does not fail for ever
SpecLive == InitLive /\ [][NextLive]_vars /\ WF_vars(LoopStep) /\ SF_vars(FetchDelivers)
NextStop ==
    \/ NextLive
    \/ FetchCancelled
    \/ Cancel

\* the pipeline that a signal may stop: the goroutine keeps running and a
\* FetchMessage whose context is cancelled returns
SpecStop ==
    InitLive /\ [][NextStop]_vars /\ WF_vars(LoopStep) /\ WF_vars(FetchCancelled)
\* --------------------------------------------------------- translation
ArrayHalfSecond == <<Num(2024), Num(1), Num(15), Num(10), Num(30), Num(45), Num(500000000)>>
\* members in range and whole, members out of range, members with a fraction
TimestampArrays ==
    {<<>>, Array3, Array6, Array7, ArrayHalfSecond, ArrayText,
     <<Num(2024), Num(2), Num(29), Num(23), Num(59), Num(59), Num(999999999)>>,
     <<Num(2024), Num(1), Num(15), Num(10), Num(30), Num(45), NotANumber>>,
     <<Num(2024), Num(1), Num(15), Num(10), Num(30), Num(45), Num(0), NotANumber>>,
     <<Num(2024), Num(13), Num(15), Num(10), Num(30), Num(45)>>,
     <<Num(2023), Num(2), Num(29), Num(24), Num(60), Num(60), Num(1000000000)>>,
     <<Num(2024), Num(0), Num(0), Num(-1), Num(0), Num(0), Num(-1)>>,
     <<NumAndHalf(2024), Num(1), NumAndHalf(15), Num(10), Num(30), NumAndHalf(45)>>}

\* amounts a JSON number decodes to: whole and fractional minor units, zeros
\* of either sign, negative amounts, the smallest and the largest magnitudes
RawAmounts ==
    {FromInt(10050), FromInt(1), FromInt(0), FromInt(-10050),
     F64(TRUE, 0, 0, 0, MinExp), F64(FALSE, 2^12, 0, 0, -53),
     F64(FALSE, 2^12, 0, 0, MinExp), F64(FALSE, 2^13 - 1, Limb - 1, Limb - 1, 971),
     F64(TRUE, 0, 0, 1, MinExp)}
    \cup {F64(FALSE, 0, 0, c, MinExp) : c \in {1, 2, 49, 50, 51, 52, 150}}

\* an event that differs from BaseMsg in every field that is only copied
OtherMsg ==
    [BaseMsg EXCEPT !.ID = "id-1", !.UserID = 456, !.AccountID = "acc-2",
                    !.TransactionID = "T2", !.TransactionType = "PAYMENT",
                    !.TransactionStatus = "FAILED", !.BalanceBefore = 0,
                    !.BalanceAfter = -5, !.Currency = "USD",
                    !.ExternalReference = <<"ref-1">>, !.Metadata = <<"{}">>,
                    !.IsAccessibleFromExternal = FALSE]

RawEvents ==
    {[BaseMsg EXCEPT !.CreatedAt = c, !.UpdatedAt = u] : c, u \in TimestampArrays}
    \cup {[b EXCEPT !.Description = d, !.PaymentMethod = p] :
              b \in {BaseMsg, OtherMsg}, d \in {"", "retry"}, p \in {"", "GOPAY"}}
    \cup {[BaseMsg EXCEPT !.Amount = a, !.CreatedAt = c, !.Description = d,
                           !.PaymentMethod = d] :
              a \in RawAmounts, c \in {Array3, Array7}, d \in {"", "GOPAY"}}

InitTranslate ==
    /\ InitCommon
    /\ rows = <<>>
    /\ uc = [w \in Goroutines |-> IdleFrame]
    /\ kafka \in {<<Encoded(m)>> : m \in RawEvents}
    /\ pos = 0
    /\ cursor = 0
    /\ cpc = "start"
    /\ cur = 0
    /\ ctxDone = FALSE
    /\ ret = "running"
    /\ herr = NoErr

NextTranslate ==
    \/ ConsumeStart
    \/ ConsumeSelect
    \/ FetchDelivers
    \/ HandleMessage
    \/ PTValidate("loop")
    \/ PTExists("loop")
    \/ PTCreate("loop")
    \/ HandlerReturn
    \/ ConsumeHandled
    \/ CommitOk

\* one raw event, decoded, translated and processed with no fault
SpecTranslate == InitTranslate /\ [][NextTranslate]_vars
\* ================================================================ claims
RowCount(tbl, tid) == Cardinality({i \in 1..Len(tbl) : tbl[i].TransactionID = tid})
IdTaken(tbl, id) == \E i \in 1..Len(tbl) : tbl[i].ID = id
Calls == 1..Len(hist)
\* no operation of the call met a database that was down or a cancelled context
Healthy(h) == ~h.existsErr /\ h.createKind # "unavailable"
CountLog(out, e) == Cardinality({i \in 1..Len(out) : out[i] = e})
MeetsInvariants(t) ==
    /\ t.UserID > 0
    /\ t.AccountID # ""
    /\ t.TransactionID # ""
    /\ t.TransactionType # ""
    /\ Positive(t.Amount)

\* two consecutive healthy calls with valid records sharing a transaction id
\* that has no row when the first is made
TwiceSameId(i) ==
    /\ i + 1 \in Calls
    /\ MeetsInvariants(hist[i].arg)
    /\ MeetsInvariants(hist[i + 1].arg)
    /\ hist[i].arg.TransactionID = hist[i + 1].arg.TransactionID
    /\ RowCount(hist[i].before, hist[i].arg.TransactionID) = 0
    /\ Healthy(hist[i])
    /\ Healthy(hist[i + 1])

WrittenThenSkipped(i) ==
    /\ Outcome(hist[i]) = "Written"
    /\ Outcome(hist[i + 1]) = "Skipped"
    /\ RowCount(hist[i + 1].after, hist[i].arg.TransactionID) = 1

\* C1, as stated: with healthy storage and no row yet for T, two calls of
\* ProcessTransaction with valid records sharing T return Written and then
\* Skipped, and storage then holds exactly one row for T.
C1_Original == \A i \in Calls : TwiceSameId(i) => WrittenThenSkipped(i)

\* C1, amended: with healthy storage, no row yet for T and no stored row whose
\* primary-key ID equals the first record's ID, two calls of ProcessTransaction
\* with valid records sharing T return Written and then Skipped, and storage
\* then holds exactly one row for T.
C1_Idempotent ==
    \A i \in Calls :
        TwiceSameId(i) /\ ~IdTaken(hist[i].before, hist[i].arg.ID)
            => WrittenThenSkipped(i)

C1_Witness ==
    \E i \in Calls :
        /\ TwiceSameId(i)
        /\ ~IdTaken(hist[i].before, hist[i].arg.ID)
        /\ hist[i].arg # hist[i + 1].arg
        /\ WrittenThenSkipped(i)

\* C2: in every reachable state of the single-worker pipeline, whatever the
\* log holds (duplicates included) and whatever storage errors occur, storage
\* holds at most one row per transaction id.
C2_AtMostOneRowPerId ==
    \A i, j \in 1..Len(rows) : rows[i].TransactionID = rows[j].TransactionID => i = j

C2_Witness ==
    \E i, j \in Calls :
        /\ i < j
        /\ hist[i].off # hist[j].off
        /\ hist[i].valid /\ hist[j].valid
        /\ hist[i].arg.TransactionID = hist[j].arg.TransactionID
        /\ Outcome(hist[i]) = "Written"
        /\ RowCount(rows, hist[i].arg.TransactionID) = 1

\* the record the handler hands to ProcessTransaction for the message at offset i
RecordAt(i) == kafkaMessageToEntity(kafka[i].body)

\* C3, as stated: once the loop has acknowledged a message whose payload
\* decodes to a valid record with transaction id T, storage holds exactly one
\* row for T, whatever transient storage errors occurred.  It is taken on the
\* runs in which the context is not cancelled, where the only errors are the
\* storage errors the claim speaks of.
C3_Original ==
    ~ctxDone =>
        \A i \in 1..cursor :
            (kafka[i].decodes /\ ~RecordAt(i).panic /\ MeetsInvariants(RecordAt(i).txn))
                => RowCount(rows, RecordAt(i).txn.TransactionID) = 1

\* C3, amended: once the loop has acknowledged a message whose payload decodes
\* to a valid record with transaction id T and whose ProcessTransaction call
\* returned no error (Written or Skipped), storage holds exactly one row for T;
\* a call that met a storage error returns Failed, its message is acknowledged
\* all the same, and it adds no row.
C3_AckedWithoutError ==
    \A k \in Calls :
        LET h == hist[k] IN
        (h.w = "loop" /\ h.off <= cursor /\ MeetsInvariants(h.arg))
            => /\ Outcome(h) \in {"Written", "Skipped"}
                  => RowCount(rows, h.arg.TransactionID) = 1
               /\ Outcome(h) = "Failed" => h.after = h.before

C3_Witness ==
    \E k, l \in Calls :
        /\ hist[k].off <= cursor /\ hist[l].off <= cursor
        /\ Outcome(hist[k]) = "Written"
        /\ RowCount(rows, hist[k].arg.TransactionID) = 1
        /\ Outcome(hist[l]) = "Failed"
        /\ ~Healthy(hist[l])
        /\ RowCount(rows, hist[l].arg.TransactionID) = 0

\* C4: the pipeline never updates or deletes a persisted row: every row that
\* exists stays as it is, at its place, through every step, also through a
\* call whose record has the row's transaction id and other field values.
C4_RowsNeverChange ==
    [][\A i \in 1..Len(rows) : Len(rows') >= i /\ rows'[i] = rows[i]]_vars

C4_Witness ==
    \E k \in Calls :
        LET h == hist[k] IN
        /\ h.valid
        /\ \E i \in 1..Len(h.before) :
              /\ h.before[i].TransactionID = h.arg.TransactionID
              /\ h.before[i].Amount # h.arg.Amount
              /\ i <= Len(rows) /\ rows[i] = h.before[i]

\* C5: a record that fails a validity invariant makes ProcessTransaction
\* return "invalid transaction data" (Rejected) with storage unchanged and
\* with neither Exists nor Create called, also while storage is down.
C5_InvalidRejected ==
    \A k \in Calls :
        LET h == hist[k] IN
        ~MeetsInvariants(h.arg)
            => /\ h.err = ErrInvalid
               /\ Outcome(h) = "Rejected"
               /\ h.after = h.before
               /\ ~h.calledExists
               /\ ~h.calledCreate

C5_Witness ==
    \E k \in Calls :
        /\ ~MeetsInvariants(hist[k].arg)
        /\ IsZero(hist[k].arg.Amount)
        /\ ~hist[k].upAtCall
        /\ ~dbUp
        /\ Outcome(hist[k]) = "Rejected"

\* C6: IsValid returns true exactly when user id > 0, account id, transaction
\* id and transaction type are non-empty and amount > 0; it answers for every
\* record, and evaluating it changes neither the record nor storage nor the
\* diagnostics.
C6_IsValidIff ==
    /\ [][\A w \in Goroutines :
          (uc[w].pc = "validate" /\ uc'[w].pc # "validate")
              => /\ uc'[w].valid <=> MeetsInvariants(uc[w].txn)
                 /\ uc'[w].txn = uc[w].txn
                 /\ rows' = rows
                 /\ logs' = logs]_vars
    /\ [](\A w \in Goroutines : uc[w].pc = "validate" => ENABLED PTValidate(w))

C6_Witness ==
    /\ uc["w1"].pc = "done"
    /\ ~uc["w1"].valid
    /\ IsZero(uc["w1"].txn.Amount)
    /\ uc["w1"].txn.UserID > 0
    /\ uc["w1"].txn.AccountID # ""
    /\ uc["w1"].txn.TransactionID # ""
    /\ uc["w1"].txn.TransactionType # ""

\* C7: a storage error during the existence check or during create makes
\* ProcessTransaction return Failed, leaves storage unchanged and logs at
\* error level; when the existence check errors, Create is not attempted.
C7_StorageErrorFails ==
    \A k \in Calls :
        LET h == hist[k] IN
        (h.existsErr \/ h.createKind # "none")
            => /\ Outcome(h) = "Failed"
               /\ h.after = h.before
               /\ \E i \in 1..Len(h.out) : h.out[i].level = "error"
               /\ h.existsErr => (~h.calledCreate /\ h.err = ErrExists)
               /\ h.createKind # "none" => h.err = ErrCreate

C7_Witness ==
    \E k, l \in Calls :
        /\ hist[k].createKind = "unavailable"
        /\ hist[l].existsErr
        /\ Outcome(hist[k]) = "Failed"
        /\ Outcome(hist[l]) = "Failed"

\* C8, as stated: when Create fails because a row with the same transaction
\* id already exists (the unique index rejects the insert), ProcessTransaction
\* returns what it returns for Skipped: no error.
C8_UniqueViolationSkips ==
    \A k \in Calls :
        hist[k].createKind = "unique_transaction_id" => hist[k].err = NoErr

\* C9, as stated: two workers running ProcessTransaction concurrently with
\* valid records of one transaction id, on storage that enforces uniqueness,
\* end with exactly one row for the id, one worker Written, the other Skipped.
C9_RaceWrittenAndSkipped ==
    \A k, l \in Calls :
        LET a == hist[k]
            b == hist[l]
        IN (/\ k < l
            /\ a.w # b.w
            /\ MeetsInvariants(a.arg) /\ MeetsInvariants(b.arg)
            /\ a.arg.TransactionID = b.arg.TransactionID
            /\ RowCount(a.before, a.arg.TransactionID) = 0
            /\ RowCount(b.before, b.arg.TransactionID) = 0
            /\ Healthy(a) /\ Healthy(b)
            /\ a.createKind # "primary_key" /\ b.createKind # "primary_key")
            => /\ RowCount(rows, a.arg.TransactionID) = 1
               /\ {Outcome(a), Outcome(b)} = {"Written", "Skipped"}

\* C10: when a row with the record's transaction id exists and the existence
\* check succeeds, ProcessTransaction returns no error (Skipped), does not
\* call Create, leaves storage unchanged and logs one informational
\* "already exists" entry.
C10_ExistingSkipped ==
    \A k \in Calls :
        LET h == hist[k] IN
        (h.calledExists /\ ~h.existsErr /\ RowCount(h.before, h.arg.TransactionID) > 0)
            => /\ h.err = NoErr
               /\ Outcome(h) = "Skipped"
               /\ ~h.calledCreate
               /\ h.after = h.before
               /\ CountLog(h.out, Log("info", MsgAlreadyExists)) = 1
               /\ \A i \in 1..Len(h.out) : h.out[i].level = "info"

C10_Witness ==
    \E k \in Calls :
        LET h == hist[k] IN
        /\ h.calledExists /\ ~h.existsErr
        /\ RowCount(h.before, h.arg.TransactionID) = 1
        /\ Outcome(h) = "Skipped"
        /\ h.out = <<Log("info", MsgAlreadyExists)>>

\* a valid record whose transaction id has no row, handed to a call that met
\* neither an outage nor a cancelled context
FreshValidHealthy(h) ==
    /\ MeetsInvariants(h.arg)
    /\ RowCount(h.before, h.arg.TransactionID) = 0
    /\ Healthy(h)

\* the call returned Written and the table is the former one with one row
\* more, the record's
WrittenOneRow(h) ==
    /\ h.err = NoErr
    /\ Outcome(h) = "Written"
    /\ Len(h.after) = Len(h.before) + 1
    /\ SubSeq(h.after, 1, Len(h.before)) = h.before
    /\ h.after[Len(h.after)].TransactionID = h.arg.TransactionID
    /\ h.after[Len(h.after)].TransactionType = h.arg.TransactionType
    /\ h.after[Len(h.after)].Amount = h.arg.Amount
    /\ RowCount(h.after, h.arg.TransactionID) = 1

\* C11, as stated: for a valid record whose transaction id has no row, with
\* storage healthy, ProcessTransaction returns Written and storage afterwards
\* holds exactly one new row, for that id, every other row unchanged, for
\* each of the types TOPUP, PAYMENT, REFUND and TRANSFER.
C11_Original ==
    \A k \in Calls : FreshValidHealthy(hist[k]) => WrittenOneRow(hist[k])

\* C11, amended: for a valid record whose transaction id has no row and whose
\* ID is the primary key of no stored row, with storage healthy,
\* ProcessTransaction returns Written and storage afterwards holds exactly one
\* new row, for that id, every other row unchanged, for each of the types
\* TOPUP, PAYMENT, REFUND and TRANSFER.
C11_WrittenOneNewRow ==
    \A k \in Calls :
        FreshValidHealthy(hist[k]) /\ ~IdTaken(hist[k].before, hist[k].arg.ID)
            => WrittenOneRow(hist[k])

C11_Witness ==
    \E k, l \in Calls :
        /\ k < l
        /\ FreshValidHealthy(hist[k]) /\ FreshValidHealthy(hist[l])
        /\ hist[k].arg.TransactionType \in {"PAYMENT", "REFUND"}
        /\ hist[l].arg.TransactionType \in {"TRANSFER", "TOPUP"}
        /\ Len(hist[k].before) = 1
        /\ WrittenOneRow(hist[k]) /\ WrittenOneRow(hist[l])

Anomalous(t) == t.TransactionStatus = "FAILED" /\ t.BalanceBefore # t.BalanceAfter
Warnings(out) == CountLog(out, Log("warn", MsgBalanceChange))
WithoutWarnings(out) == SelectSeq(out, LAMBDA e : e.level # "warn")
\* two tables with the same rows up to the after-balance of each
SameUpToBalanceAfter(a, b) ==
    /\ Len(a) = Len(b)
    /\ \A i \in 1..Len(a) : a[i] = [b[i] EXCEPT !.BalanceAfter = a[i].BalanceAfter]
\* call l ran the twin of call k's record in the storage state call k met and
\* under the same storage conditions
TwinRun(k, l) ==
    /\ Anomalous(hist[k].arg)
    /\ k # l
    /\ hist[l].arg = Twin(hist[k].arg)
    /\ hist[l].before = hist[k].before
    /\ hist[l].existsErr = hist[k].existsErr
    /\ (hist[l].createKind = "unavailable") = (hist[k].createKind = "unavailable")
\* the outcome and the effect on storage of call k are those of call l
SameOutcomeAndEffect(k, l) ==
    /\ Outcome(hist[k]) = Outcome(hist[l])
    /\ hist[k].err = hist[l].err
    /\ SameUpToBalanceAfter(hist[k].after, hist[l].after)
    /\ WithoutWarnings(hist[k].out) = hist[l].out
    /\ Warnings(hist[l].out) = 0
\* the call passed validation and its existence check found no row
ReachedConsistencyCheck(h) ==
    /\ MeetsInvariants(h.arg)
    /\ h.calledExists /\ ~h.existsErr
    /\ RowCount(h.before, h.arg.TransactionID) = 0

\* C12, as stated: for a FAILED-status record whose balances differ,
\* ProcessTransaction emits a warning diagnostic, and its outcome and effect
\* on storage are those of the identical record with equal balances, in every
\* storage state.
C12_Original ==
    /\ \A k \in Calls : Anomalous(hist[k].arg) => Warnings(hist[k].out) >= 1
    /\ \A k, l \in Calls : TwinRun(k, l) => SameOutcomeAndEffect(k, l)

\* C12, amended: for a FAILED-status record whose balances differ,
\* ProcessTransaction emits one warning diagnostic when the record is valid
\* and the existence check succeeds and finds no row, and none otherwise
\* (Rejected, Skipped, failed existence check); in every storage state its
\* outcome and effect on storage are those of the identical record with equal
\* balances, which emits no warning.
C12_WarningAdditive ==
    /\ \A k \in Calls :
          Anomalous(hist[k].arg)
              => Warnings(hist[k].out) = IF ReachedConsistencyCheck(hist[k]) THEN 1 ELSE 0
    /\ \A k, l \in Calls : TwinRun(k, l) => SameOutcomeAndEffect(k, l)

C12_Witness ==
    \E k, l \in Calls :
        /\ TwinRun(k, l)
        /\ Len(hist[k].before) = 1
        /\ Warnings(hist[k].out) = 1
        /\ Outcome(hist[k]) = "Written"
        /\ Outcome(hist[l]) = "Written"
        /\ hist[k].after # hist[l].after

\* the number of messages whose iteration of the loop is over: the handler
\* returned and the commit step was left
Iterated == IF cpc \in {"select", "fetch", "returned"} THEN cur ELSE IF cur > 0 THEN cur - 1 ELSE 0
CommitFailures == CountLog(logs, Log("error", "Failed to commit message"))

\* C13, as stated: every message the loop fetches is acknowledged, the cursor
\* advancing past it, whatever the handler's outcome was: once the iteration
\* of a message is over, the cursor is past the message.
C13_Original == Iterated <= cursor

\* C13, amended: for every message the loop fetches, whatever the handler
\* returned for it, the loop calls the commit for that message; the cursor is
\* past every message whose iteration is over unless each commit since then
\* failed, which the loop logs before it goes on.
C13_CommitAlwaysAttempted ==
    /\ cursor <= Iterated
    /\ Iterated - cursor <= CommitFailures
    /\ CommitFailures = 0 => cursor = Iterated

C13_Witness ==
    /\ cursor = 2
    /\ Iterated = 2
    /\ ~kafka[1].decodes
    /\ \E k \in Calls : hist[k].off = 2 /\ Outcome(hist[k]) \in {"Failed", "Rejected"}

\* the handler call for the message at offset i has returned its outcome
Disposed(i) ==
    \/ ~kafka[i].decodes /\ (i < cur \/ (i = cur /\ cpc # "handle"))
    \/ \E k \in Calls : hist[k].w = "loop" /\ hist[k].off = i

\* C14: the cursor never advances past a message whose disposition is
\* unknown: every message at or below the cursor has had its handler call
\* return, and while a message is with the handler the cursor is below it.
C14_CursorBehindDisposition ==
    /\ \A i \in 1..cursor : i <= Len(kafka) /\ Disposed(i)
    /\ cpc \in {"handle", "process", "handled", "panicked"} => cursor < cur

C14_Witness ==
    /\ cpc = "process"
    /\ uc["loop"].pc = "create"
    /\ cur = 2
    /\ cursor = 1
    /\ Disposed(1)
    /\ ~Disposed(2)

\* the loop holds the last message fetched, the only call of the use case is
\* the one for that message, and every earlier message is through its handler
Sequential ==
    /\ pos = cur
    /\ uc["loop"].pc # "idle" => (cpc = "process" /\ uc["loop"].off = cur)
    /\ \A k \in Calls : hist[k].w = "loop" =>
          /\ hist[k].off <= cur
          /\ cpc \in {"handle", "process"} => hist[k].off < cur
          /\ \A l \in Calls : (hist[l].w = "loop" /\ hist[l].off = hist[k].off) => l = k
    /\ \A i \in 1..Iterated : Disposed(i)
    /\ cpc \in {"fetch", "select", "returned"} => Iterated = pos

\* C15, as stated: at any moment at most one message has been fetched but not
\* yet acknowledged, and the loop does not fetch message n+1 before the
\* handler and the commit step for message n have completed.
C15_Original == pos - cursor <= 1 /\ Sequential

\* C15, amended: at any moment at most one message has been fetched whose
\* commit step has not completed (with success or with a logged failure), and
\* the loop does not fetch message n+1 before the handler and the commit step
\* for message n have completed; the messages fetched and not yet acknowledged
\* are that one and those whose commits failed.
C15_OneInFlight == pos - cursor <= 1 + CommitFailures /\ pos - Iterated <= 1 /\ Sequential

C15_Witness ==
    /\ cpc = "process"
    /\ pos = 2
    /\ cursor = 1
    /\ uc["loop"].pc = "exists"
    /\ uc["loop"].off = 2
    /\ \E k \in Calls : hist[k].off = 1

FetchFailures == CountLog(logs, Log("error", "Failed to fetch message"))
\* the step in which FetchMessage returned an error that is no cancellation
FetchFailureStep ==
    /\ cpc = "fetch"
    /\ logs' = Append(logs, Log("error", "Failed to fetch message"))

\* C16: a fetch failure that is not a cancellation consumes no message: the
\* handler is not called, nothing is committed, storage and cursor are
\* unchanged, and the loop stays running, at the top of its iteration, from
\* where its next step is another fetch unless the context got cancelled.
C16_FetchFailureConsumesNothing ==
    /\ [][FetchFailureStep
            => /\ pos' = pos /\ cur' = cur /\ kafka' = kafka
               /\ uc' = uc /\ hist' = hist /\ herr' = herr
               /\ cursor' = cursor
               /\ rows' = rows
               /\ ret' = "running" /\ cpc' = "select"]_vars
    /\ [][(cpc = "select" /\ ~ctxDone /\ cpc' # cpc) => cpc' = "fetch"]_vars
    /\ [](cpc = "select" => ENABLED ConsumeSelect)

C16_Witness ==
    /\ FetchFailures >= 1
    /\ cpc = "handle"
    /\ cur = 2
    /\ cursor = 1
    /\ Len(rows) = 1

\* C17: fetch is retried without a bound: the loop returns for no other
\* reason than cancellation, however many fetch failures in a row it met, and
\* if fetch eventually succeeds and no cancellation occurs, the next message
\* is eventually handed to the handler.
C17_FetchRetriedUntilSuccess ==
    /\ [](cpc = "returned" => ctxDone)
    /\ [][pos' # pos => (pos' = pos + 1 /\ cur' = pos' /\ cpc' = "handle")]_vars
    /\ (cpc \in {"start", "select", "fetch"} /\ pos < Len(kafka)) ~> (cpc = "handle" \/ ctxDone)

C17_Witness ==
    /\ ConsecutiveFetchFailures = MaxRetries
    /\ ConsecutiveFetchFailures >= 2
    /\ cpc = "handle"
    /\ cur = 2
    /\ ~ctxDone

\* C18, as stated: no message stalls the stream: without cancellation and
\* with fetches that eventually succeed, every message in the log is
\* eventually fetched and acknowledged, whatever earlier messages produced.
\* It is taken on the runs in which no commit fails, where an acknowledgement
\* can only be missing because the loop did not get to the message.
C18_NoMessageStalls ==
    \A i \in 1..MaxLog : (i <= Len(kafka)) ~> (cursor >= i \/ CommitFailures > 0)

\* C19, as stated: when cancellation is the cause of loop exit, Consume
\* returns nil, whether the cancellation is observed at the check at the top
\* of the iteration or inside a blocked fetch.
C19_CancelReturnsNil == (cpc = "returned" /\ ctxDone) => ret = NoErr

\* C20, as stated: after the context is cancelled, Consume eventually
\* returns; once the loop has observed the cancellation at its per-iteration
\* check it initiates no further fetch; and a fetch that is blocked when the
\* cancellation arrives is unblocked.
C20_CancelStopsLoop ==
    /\ ctxDone ~> (cpc = "returned")
    /\ [][(cpc = "select" /\ ctxDone /\ cpc' # cpc) => cpc' = "returned"]_vars
    /\ [][cpc = "returned" => (cpc' = cpc /\ pos' = pos)]_vars
    /\ []((cpc = "fetch" /\ ctxDone) => ENABLED FetchCancelled)

\* C21, as stated: a message that is being processed when the cancellation
\* arrives is allowed to finish: its existence check and its create are not
\* aborted by the cancellation, so it reaches the outcome it would have
\* reached without it, and it is acknowledged before the loop returns.  It is
\* taken on the runs without any fault of the database or the broker and on
\* the calls of ProcessTransaction made before the cancellation: such a call
\* meets no storage error, and its message's commit succeeds, unless the
\* cancellation makes it otherwise.
C21_InFlightFinishes ==
    faults = 0 =>
        /\ (uc["loop"].pc # "idle" /\ ~uc["loop"].doneAtCall)
              => (~uc["loop"].existsErr /\ uc["loop"].createKind # "unavailable")
        /\ \A k \in Calls :
              (hist[k].w = "loop" /\ ~hist[k].doneAtCall)
                  => /\ ~hist[k].existsErr /\ hist[k].createKind # "unavailable"
                     /\ cpc = "returned" => cursor >= hist[k].off

\* the handler's step for a payload that json.Unmarshal rejects
UndecodableStep == cpc = "handle" /\ ~kafka[cur].decodes /\ cpc' # cpc
\* what holds of an undecodable payload whatever the commit does: the handler
\* returns the unmarshal error without translating and without calling
\* ProcessTransaction, no row is produced, and the loop goes on to the commit
Undecoded ==
    /\ [][UndecodableStep
            => /\ herr' = ErrUnmarshal
               /\ cpc' = "handled"
               /\ logs' = Append(logs, Log("debug", "Received message"))
               /\ uc' = uc /\ hist' = hist
               /\ rows' = rows]_vars
    /\ [][(cpc = "handled" /\ herr = ErrUnmarshal /\ cpc' # cpc)
            => (cpc' = "commit" /\ cur' = cur /\ rows' = rows /\ uc' = uc /\ hist' = hist
                /\ logs' = Append(logs, Log("error", "Failed to process message")))]_vars
    /\ [](\A k \in Calls : hist[k].w = "loop" => kafka[hist[k].off].decodes)

\* C22, as stated: an undecodable payload is a permanent failure for that
\* message: HandleMessage returns an error, translation and
\* ProcessTransaction are not invoked, no row is produced, and the loop
\* still acknowledges the message.
C22_Original ==
    /\ Undecoded
    /\ [](\A i \in 1..Iterated : ~kafka[i].decodes => cursor >= i)

\* C22, amended: an undecodable payload is a permanent failure for that
\* message: HandleMessage returns an error, translation and
\* ProcessTransaction are not invoked, no row is produced, and the loop still
\* calls the commit for the message, which advances the cursor past it
\* unless that commit and every later one failed.
C22_UndecodableCommitted ==
    /\ Undecoded
    /\ [](\A i \in 1..Iterated : ~kafka[i].decodes => (cursor >= i \/ CommitFailures >= Iterated - i + 1))

C22_Witness ==
    /\ Len(kafka) >= 1
    /\ ~kafka[1].decodes
    /\ Iterated = 1
    /\ cursor = 1
    /\ rows = <<>>
    /\ hist = <<>>
    /\ CountLog(logs, Log("error", "Failed to process message")) = 1

\* the message at offset i decodes to a record that passes validation
ValidMessage(i) ==
    /\ kafka[i].decodes
    /\ ~RecordAt(i).panic
    /\ MeetsInvariants(RecordAt(i).txn)
\* the log holds one malformed message followed by one valid message
MalformedThenValid ==
    /\ Len(kafka) = 2
    /\ ~kafka[1].decodes
    /\ ValidMessage(2)

SameValidTwice ==
    /\ Len(kafka) = 2
    /\ kafka[1] = kafka[2]
    /\ ValidMessage(1)

C25_ErrorsContained ==
    /\ cpc # "panicked"
    /\ cpc = "returned" => ctxDone

\* the times HandleMessage has been entered
HandlerRuns == CountLog(logs, Log("debug", "Received message"))
LoopCalls == {k \in Calls : hist[k].w = "loop"}

\* C26: no automatic in-process retry: for each fetched message the handler,
\* and therefore ProcessTransaction, runs at most once, also when the outcome
\* is Failed; from the handler's return the loop moves on to the commit and
\* from the commit to the next fetch.
C26_NoRetry ==
    /\ [](/\ HandlerRuns = (IF cpc = "handle" THEN pos - 1 ELSE pos)
          /\ Cardinality(LoopCalls) <= HandlerRuns
          /\ \A k \in LoopCalls :
                /\ hist[k].off \in 1..pos
                /\ \A l \in LoopCalls : hist[l].off = hist[k].off => l = k
                /\ Outcome(hist[k]) = "Failed" =>
                      (hist[k].off = cur => cpc \notin {"handle", "process"}))
    /\ [][/\ (cpc = "handled" /\ cpc' # cpc) => (cpc' = "commit" /\ cur' = cur)
          /\ (cpc = "commit" /\ cpc' # cpc) => (cpc' = "select" /\ pos' = pos)
          /\ (cpc = "select" /\ cpc' # cpc) => cpc' \in {"fetch", "returned"}
          /\ (cpc = "fetch" /\ cpc' = "handle") => (pos' = pos + 1 /\ cur' = pos')]_vars

\* a call ended Failed, was not repeated, and the loop is at the next message
C26_Witness ==
    /\ Len(hist) = 1
    /\ hist[1].w = "loop"
    /\ hist[1].off = 1
    /\ Outcome(hist[1]) = "Failed"
    /\ cur = 2
    /\ cpc = "process"
    /\ HandlerRuns = 2

\* the handler has translated message i and handed the record on
Translated(i) ==
    \/ uc["loop"].pc # "idle" /\ uc["loop"].off = i
    \/ \E k \in LoopCalls : hist[k].off = i
\* the record it made of it
RecordOf(i) ==
    IF uc["loop"].pc # "idle" /\ uc["loop"].off = i
    THEN uc["loop"].arg
    ELSE hist[CHOOSE k \in LoopCalls : hist[k].off = i].arg

\* the members parseTimestamp reads
Members(arr) == 1..(IF Len(arr) > 6 THEN 7 ELSE Len(arr))
TooShort(arr) == Len(arr) < 6
NonNumeric(arr) == \E i \in Members(arr) : ~arr[i].num
WellFormed(arr) == ~TooShort(arr) /\ ~NonNumeric(arr)

\* C27, as stated: translation never fails outright: for every decoded raw
\* event, including one whose timestamp array has too few elements or
\* contains non-numeric members, kafkaMessageToEntity returns a record
\* without aborting, with the current UTC instant in place of the malformed
\* timestamp.
C27_TranslationNeverAborts ==
    \A i \in 1..Len(kafka) :
        (kafka[i].decodes /\ i <= pos /\ (i < cur \/ cpc # "handle"))
            => /\ Translated(i)
               /\ ~WellFormed(kafka[i].body.CreatedAt) => RecordOf(i).CreatedAt = Now
               /\ ~WellFormed(kafka[i].body.UpdatedAt) => RecordOf(i).UpdatedAt = Now

WithoutTimestamps(t) == [t EXCEPT !.CreatedAt = ZeroTime, !.UpdatedAt = ZeroTime]
FallbackOn(field) ==
    Log("warn", IF field = "createdAt" THEN MsgCreatedAtFallback ELSE MsgUpdatedAtFallback)

\* C28: the timestamp fallback is per field: when the createdAt array has
\* fewer than 6 elements and the updatedAt array is well-formed, only
\* createdAt is replaced by the current instant and updatedAt keeps its
\* parsed value, and symmetrically; every other field of the record is what
\* it is when both arrays are well-formed.
C28_FallbackPerField ==
    \A i \in 1..Len(kafka) :
        Translated(i) =>
            LET m == kafka[i].body
                t == RecordOf(i)
                whole == kafkaMessageToEntity([m EXCEPT !.CreatedAt = Array7, !.UpdatedAt = Array7]).txn
            IN /\ (TooShort(m.CreatedAt) /\ WellFormed(m.UpdatedAt)) =>
                     /\ t.CreatedAt = Now
                     /\ t.UpdatedAt = parseTimestamp(m.UpdatedAt).t
                     /\ CountLog(logs, FallbackOn("createdAt")) = 1
                     /\ CountLog(logs, FallbackOn("updatedAt")) = 0
               /\ (TooShort(m.UpdatedAt) /\ WellFormed(m.CreatedAt)) =>
                     /\ t.UpdatedAt = Now
                     /\ t.CreatedAt = parseTimestamp(m.CreatedAt).t
                     /\ CountLog(logs, FallbackOn("updatedAt")) = 1
                     /\ CountLog(logs, FallbackOn("createdAt")) = 0
               /\ (TooShort(m.CreatedAt) \/ TooShort(m.UpdatedAt)) =>
                     /\ WithoutTimestamps(t) = WithoutTimestamps(whole)
                     /\ t.TransactionID = m.TransactionID
                     /\ t.UserID = m.UserID
                     /\ t.BalanceAfter = m.BalanceAfter

\* createdAt has three elements and updatedAt six: the record carries the
\* current instant and the instant of updatedAt
C28_Witness ==
    /\ cpc = "process"
    /\ kafka[1].body.CreatedAt = Array3
    /\ kafka[1].body.UpdatedAt = Array6
    /\ uc["loop"].arg.CreatedAt = Now
    /\ uc["loop"].arg.UpdatedAt = Instant0
    /\ uc["loop"].arg.TransactionID = "T1"

\* the members as given, in halves, a missing 7th counting as 0
Given(arr) == [i \in 1..7 |-> IF i <= Len(arr) THEN arr[i].h ELSE 0]
ExactlyGiven(t, arr) == \A i \in 1..7 : 2 * t[i] = Given(arr)[i]
IsLeap(y) == y % 4 = 0 /\ (y % 100 # 0 \/ y % 400 = 0)
DaysIn(y, m) ==
    IF m = 2 THEN (IF IsLeap(y) THEN 29 ELSE 28)
    ELSE IF m \in {4, 6, 9, 11} THEN 30 ELSE 31
ValidInstant(t) ==
    /\ t[2] \in 1..12
    /\ t[3] \in 1..DaysIn(t[1], t[2])
    /\ t[4] \in 0..23
    /\ t[5] \in 0..59
    /\ t[6] \in 0..59
    /\ t[7] \in 0..999999999
\* every member read is a whole number within its calendar range
InCalendar(arr) ==
    /\ \A i \in Members(arr) : arr[i].h % 2 = 0
    /\ ValidInstant([i \in 1..7 |-> Given(arr)[i] \div 2])

\* the timestamp fields of the records translated: array and instant
ParsedFields ==
    {<<kafka[i].body.CreatedAt, RecordOf(i).CreatedAt, "createdAt">> :
        i \in {j \in 1..Len(kafka) : Translated(j)}}
    \cup {<<kafka[i].body.UpdatedAt, RecordOf(i).UpdatedAt, "updatedAt">> :
        i \in {j \in 1..Len(kafka) : Translated(j)}}

\* C29, as stated: parseTimestamp accepts an array of at least 6 numeric
\* elements and returns the UTC instant with exactly those year, month, day,
\* hour, minute and second components, with nanosecond equal to the 7th
\* element when present and 0 otherwise; an array with fewer than 6 elements
\* returns an error.
C29_Original ==
    \A f \in ParsedFields :
        /\ WellFormed(f[1]) => ExactlyGiven(f[2], f[1])
        /\ TooShort(f[1]) => (f[2] = Now /\ CountLog(logs, FallbackOn(f[3])) = 1)

\* C29, amended: parseTimestamp accepts an array of at least 6 numeric
\* elements and returns a UTC instant, which has exactly those year, month,
\* day, hour, minute and second components, with nanosecond equal to the 7th
\* element when present and 0 otherwise, when every member is a whole number
\* within its calendar range, and differs from them otherwise; an array with
\* fewer than 6 elements returns an error.
C29_ParseTimestamp ==
    \A f \in ParsedFields :
        /\ WellFormed(f[1]) =>
              /\ ValidInstant(f[2])
              /\ InCalendar(f[1]) <=> ExactlyGiven(f[2], f[1])
              /\ CountLog(logs, FallbackOn(f[3])) = 0
        /\ TooShort(f[1]) => (f[2] = Now /\ CountLog(logs, FallbackOn(f[3])) = 1)

\* seven members in range and six members in range, each parsed as given
C29_Witness ==
    /\ cpc = "process"
    /\ kafka[1].body.CreatedAt = ArrayHalfSecond
    /\ kafka[1].body.UpdatedAt = Array6
    /\ uc["loop"].arg.CreatedAt = <<2024, 1, 15, 10, 30, 45, 500000000>>
    /\ uc["loop"].arg.UpdatedAt = <<2024, 1, 15, 10, 30, 45, 0>>

\* the raw amounts of the events translated, each with the record made
AmountsTranslated ==
    {<<kafka[i].body.Amount, RecordOf(i)>> : i \in {j \in 1..Len(kafka) : Translated(j)}}
\* a value above the subnormal range, and the values whose hundredth is at
\* most half of the smallest float64 above zero
Normal(x) == x.a >= 2^12
Vanishes(x) == x.exp = MinExp /\ x.a = 0 /\ x.b = 0 /\ x.c <= 50

\* C30, as stated: the translated record's amount equals the raw minor-unit
\* amount divided by 100, with the divisor fixed at 100 and no other
\* rounding, so a raw amount > 0 always yields a record amount > 0 and a raw
\* amount <= 0 always yields a record that fails validation.
C30_Original ==
    \A p \in AmountsTranslated :
        /\ p[2].Amount = DivideBy100(p[1])
        /\ Positive(p[1]) => Positive(p[2].Amount)
        /\ ~Positive(p[1]) => ~IsValid(p[2])

\* C30, amended: the translated record's amount equals the float64 quotient
\* of the raw minor-unit amount by 100, with the divisor fixed at 100 and no
\* other rounding, so a raw amount > 0 yields a record amount > 0 unless the
\* quotient underflows to 0 (raw amounts up to 50 * 2^-1074), where the
\* record fails validation, and a raw amount <= 0 always yields a record
\* that fails validation.
C30_AmountDividedBy100 ==
    \A p \in AmountsTranslated :
        /\ p[2].Amount = DivideBy100(p[1])
        /\ p[2].Amount.neg = p[1].neg
        /\ (Normal(p[1]) /\ Normal(p[2].Amount)) =>
              p[2].Amount.exp \in {p[1].exp - 7, p[1].exp - 6}
        /\ (Positive(p[1]) /\ ~Vanishes(p[1])) => Positive(p[2].Amount)
        /\ (Positive(p[1]) /\ Vanishes(p[1])) => (IsZero(p[2].Amount) /\ ~IsValid(p[2]))
        /\ ~Positive(p[1]) => ~IsValid(p[2])
        /\ \A k \in LoopCalls : hist[k].arg = p[2] =>
              (Outcome(hist[k]) = "Rejected") = ~Positive(p[2].Amount)

\* 10050 minor units make 100.5, and the record is written
C30_Witness ==
    /\ cpc = "commit"
    /\ kafka[1].body.Amount = F64(FALSE, 5025, 0, 0, -39)
    /\ Len(hist) = 1
    /\ hist[1].arg.Amount = F64(FALSE, 6432, 0, 0, -46)
    /\ Outcome(hist[1]) = "Written"

\* the events translated, each with the record made of it
EventsTranslated ==
    {<<kafka[i].body, RecordOf(i)>> : i \in {j \in 1..Len(kafka) : Translated(j)}}

\* C31: an empty description or payment method in the raw event is
\* translated to an absent field, never to a present zero-length value, and
\* a non-empty one to a present field carrying the same value.
C31_OptionalText ==
    \A p \in EventsTranslated :
        /\ p[2].Description # <<"">>
        /\ p[2].PaymentMethod # <<"">>
        /\ p[2].Description = (IF p[1].Description = "" THEN <<>> ELSE <<p[1].Description>>)
        /\ p[2].PaymentMethod = (IF p[1].PaymentMethod = "" THEN <<>> ELSE <<p[1].PaymentMethod>>)

\* an event with a description and no payment method has been translated
C31_Witness ==
    /\ cpc = "process"
    /\ kafka[1].body.Description = "retry"
    /\ kafka[1].body.PaymentMethod = ""
    /\ uc["loop"].arg.Description = <<"retry">>
    /\ uc["loop"].arg.PaymentMethod = <<>>

\* C32: the fields with no special handling pass through translation
\* unchanged: external id, user id, account id, transaction id, type,
\* status, balances before and after, currency, external-visibility flag,
\* optional external reference and optional metadata of the record equal
\* those of the raw event.
C32_PassThrough ==
    \A p \in EventsTranslated :
        /\ p[2].ID = p[1].ID
        /\ p[2].UserID = p[1].UserID
        /\ p[2].AccountID = p[1].AccountID
        /\ p[2].TransactionID = p[1].TransactionID
        /\ p[2].TransactionType = p[1].TransactionType
        /\ p[2].TransactionStatus = p[1].TransactionStatus
        /\ p[2].BalanceBefore = p[1].BalanceBefore
        /\ p[2].BalanceAfter = p[1].BalanceAfter
        /\ p[2].Currency = p[1].Currency
        /\ p[2].IsAccessibleFromExternal = p[1].IsAccessibleFromExternal
        /\ p[2].ExternalReference = p[1].ExternalReference
        /\ p[2].Metadata = p[1].Metadata

\* the event that differs in every copied field has been translated
C32_Witness ==
    /\ cpc = "process"
    /\ kafka[1].body.UserID = 456
    /\ kafka[1].body.Metadata = <<"{}">>
    /\ uc["loop"].arg.ID = "id-1"
    /\ uc["loop"].arg.AccountID = "acc-2"
    /\ uc["loop"].arg.TransactionType = "PAYMENT"
    /\ uc["loop"].arg.BalanceAfter = -5
    /\ uc["loop"].arg.Metadata = <<"{}">>
    /\ uc["loop"].arg.ExternalReference = <<"ref-1">>
    /\ ~uc["loop"].arg.IsAccessibleFromExternal

\* C33: only the ingestion loop advances the cursor: the cursor changes only
\* in the loop's commit step, where it moves to the message the loop holds
\* and nothing of the handler, the writer or the repository changes; no step
\* of the handler, the translator, the writer or the repository moves it.
C33_OnlyLoopCommits ==
    [][/\ cursor' # cursor =>
             /\ cpc = "commit"
             /\ cpc' = "select"
             /\ cursor' = cur
             /\ uc["loop"].pc = "idle"
             /\ UNCHANGED <<rows, uc, hist, logs>>
       /\ (cpc \in {"handle", "process"} \/ uc["loop"].pc # "idle") => cursor' = cursor]_vars

\* the commit step has moved the cursor past a message that was written
C33_Witness ==
    /\ cpc = "select"
    /\ cursor = 1
    /\ cur = 1
    /\ Len(hist) = 1
    /\ hist[1].off = 1
    /\ Outcome(hist[1]) = "Written"
    /\ Len(rows) = 1

\* C34, as stated: the loop keeps running until the shutdown signal arrives;
\* after the signal the context is cancelled, the loop accepts no new work,
\* and in-flight work finishes: a call that was under way when the signal
\* came meets no operation aborted by it.
C34_Lifecycle ==
    /\ [](~ctxDone => cpc \notin {"returned", "panicked"})
    /\ [][ctxDone => pos' = pos]_vars
    /\ [](faults = 0 =>
            \A k \in LoopCalls : ~hist[k].doneAtCall => Healthy(hist[k]))

\* where entry e first stands in out, 0 when it is absent
FirstOf(out, e) ==
    IF CountLog(out, e) = 0 THEN 0
    ELSE CHOOSE i \in 1..Len(out) : out[i] = e /\ \A j \in 1..(i - 1) : out[j] # e
\* what stands for the call while it runs and once it is over
CallsSeen == {hist[k] : k \in Calls} \cup {uc[w] : w \in {v \in DOMAIN uc : uc[v].pc # "idle"}}

\* C35: the balance-anomaly warning is emitted exactly when the record is
\* valid, the existence check succeeds and reports no row, the status is
\* FAILED and before-balance differs from after-balance; it is emitted
\* before the create attempt, and never for a FAILED record with equal
\* balances or for a record with any other status.
C35_WarningExactlyWhen ==
    /\ \A k \in Calls :
          LET h == hist[k] IN
          /\ Warnings(h.out) =
                (IF /\ MeetsInvariants(h.arg)
                    /\ h.calledExists /\ ~h.existsErr
                    /\ RowCount(h.before, h.arg.TransactionID) = 0
                    /\ h.arg.TransactionStatus = "FAILED"
                    /\ h.arg.BalanceBefore # h.arg.BalanceAfter
                 THEN 1 ELSE 0)
          /\ (h.arg.TransactionStatus # "FAILED" \/ h.arg.BalanceBefore = h.arg.BalanceAfter)
                => Warnings(h.out) = 0
          /\ Warnings(h.out) = 1 =>
                /\ h.calledCreate
                /\ \A e \in {Log("error", MsgCreateFailed), Log("info", MsgProcessed)} :
                      CountLog(h.out, e) > 0 =>
                          FirstOf(h.out, Log("warn", MsgBalanceChange)) < FirstOf(h.out, e)
    /\ \A w \in DOMAIN uc :
          /\ uc[w].pc \in {"validate", "exists"} => Warnings(uc[w].out) = 0
          /\ (uc[w].pc = "create" /\ Anomalous(uc[w].arg)) =>
                (Warnings(uc[w].out) = 1 /\ ~uc[w].calledCreate /\ rows = uc[w].before)

\* the warning was emitted and the create that followed it failed
C35_Witness ==
    \E k \in Calls :
        /\ Anomalous(hist[k].arg)
        /\ Warnings(hist[k].out) = 1
        /\ hist[k].createKind = "unavailable"
        /\ Outcome(hist[k]) = "Failed"
        /\ hist[k].after = hist[k].before

\* call l is the next call after the Failed call k, with the same record, and
\* meets healthy storage
RetryOfFailed(k, l) ==
    /\ l = k + 1
    /\ Outcome(hist[k]) = "Failed"
    /\ hist[l].arg = hist[k].arg
    /\ Healthy(hist[l])
RetryWrites(k, l) ==
    /\ Outcome(hist[l]) = "Written"
    /\ Len(hist[l].after) = Len(hist[k].before) + 1
    /\ RowCount(hist[l].after, hist[k].arg.TransactionID) = 1
\* neither the transaction id nor the record's own ID is in the table
Unstored(tbl, t) == RowCount(tbl, t.TransactionID) = 0 /\ ~IdTaken(tbl, t.ID)

CommitFailed == cpc = "commit" /\ cursor' = cursor /\ cpc' # cpc

\* C37: a failure of the commit step is logged and does not stop the loop:
\* Consume stays running, does not retry the commit or reprocess the message,
\* and proceeds to fetch the next message (from the top of the loop, which
\* returns only when the context is cancelled).
C37_CommitFailureContinues ==
    /\ [][CommitFailed =>
            /\ logs' = Append(logs, Log("error", "Failed to commit message"))
            /\ cpc' = "select"
            /\ ret = "running" /\ ret' = ret
            /\ pos' = pos /\ cur' = cur
            /\ hist' = hist /\ uc' = uc /\ rows' = rows]_vars
    /\ [][(cpc = "select" /\ cpc' # cpc) =>
            /\ cpc' = (IF ctxDone THEN "returned" ELSE "fetch")
            /\ logs' = logs \/ ctxDone
            /\ cursor' = cursor]_vars
    /\ [][(cpc = "fetch" /\ pos' # pos) =>
            /\ pos' = cur + 1
            /\ cur' = pos'
            /\ cpc' = "handle"]_vars
    /\ [](/\ CommitFailures <= Iterated
          /\ (~ctxDone /\ cpc \in {"select", "fetch"}) => ret = "running")

\* the commit of the first message failed, and the second message is with
\* the handler while the cursor is still before the first
C37_Witness ==
    /\ CommitFailures = 1
    /\ ~ctxDone
    /\ ret = "running"
    /\ cpc = "process"
    /\ cur = 2
    /\ cursor = 0
    /\ HandlerRuns = 2

\* the message of the current iteration has been fetched and its commit has
\* not been attempted yet
InHand == cpc \in {"handle", "process", "handled", "commit", "panicked"}

\* C38: messages are handled and acknowledged in fetch order: the n-th fetch
\* delivers message n, the n-th handler call and the n-th commit attempt are
\* for message n, each message gets one of each (the message in hand is at
\* most one step ahead of its handler call and its commit), and the cursor
\* never moves backward.
C38_FetchOrder ==
    /\ [][pos' # pos => (cpc = "fetch" /\ pos' = pos + 1 /\ cur' = pos')]_vars
    /\ [][HandlerRuns' # HandlerRuns =>
            /\ cpc = "handle" /\ cur = pos
            /\ HandlerRuns' = cur
            /\ uc'["loop"].pc # "idle" =>
                  /\ uc'["loop"].off = cur
                  /\ uc'["loop"].arg = kafkaMessageToEntity(kafka[cur].body).txn]_vars
    /\ [][(cpc = "commit" /\ cpc' # cpc) =>
            /\ cur = pos
            /\ Iterated = cur - 1 /\ Iterated' = cur
            /\ cursor' \in {cursor, cur}]_vars
    /\ [][cursor' >= cursor]_vars
    /\ [](/\ cur = pos
          /\ HandlerRuns = (IF cpc = "handle" THEN pos - 1 ELSE pos)
          /\ Iterated = (IF InHand THEN pos - 1 ELSE pos)
          /\ cursor <= Iterated
          /\ \A k, l \in LoopCalls : k < l => hist[k].off < hist[l].off)

\* two messages fetched, handled and committed, one after the other
C38_Witness ==
    /\ pos = 2
    /\ cursor = 2
    /\ cpc = "select"
    /\ HandlerRuns = 2
    /\ CommitFailures = 0
    /\ \E k, l \in LoopCalls : k < l /\ hist[k].off = 1 /\ hist[l].off = 2

\* the calls that reached the repository's Create
Creates == {k \in Calls : hist[k].calledCreate}
Stored(k) == hist[k].after[Len(hist[k].after)]

\* C39: after a successful repository Create the record's ID equals the id of
\* the stored row, which storage generated when the record carried none;
\* after a failed Create the record's ID is left unchanged and no row is
\* stored.
C39_CreateSetsID ==
    \A k \in Creates :
        IF hist[k].createKind = "none"
        THEN /\ hist[k].err = NoErr
             /\ hist[k].after = Append(hist[k].before, Stored(k))
             /\ Stored(k).TransactionID = hist[k].arg.TransactionID
             /\ hist[k].txn = [hist[k].arg EXCEPT !.ID = Stored(k).ID]
             /\ hist[k].txn.ID # ""
             /\ ~IdTaken(hist[k].before, hist[k].txn.ID)
             /\ hist[k].arg.ID # "" => hist[k].txn.ID = hist[k].arg.ID
        ELSE /\ hist[k].err = ErrCreate
             /\ hist[k].txn = hist[k].arg
             /\ hist[k].after = hist[k].before

\* one Create stored a record that carried no ID beside a seeded row, and
\* another failed while the database was down
C39_Witness ==
    /\ Len(hist) = 2
    /\ Creates = {1, 2}
    /\ \E k \in Creates :
          /\ hist[k].createKind = "none"
          /\ hist[k].arg.ID = ""
          /\ hist[k].before # <<>>
          /\ hist[k].txn.ID = Stored(k).ID
    /\ \E k \in Creates :
          /\ hist[k].createKind = "unavailable"
          /\ hist[k].txn.ID = hist[k].arg.ID
====
